---- MODULE Spec2Model ----
(***************************************************************************)
(* Verification model of the GitHub analytics dashboards:                  *)
(*   - the rate-limited fetch client (api/github.ts: fetchWithRetry,       *)
(*     handleRateLimit),                                                   *)
(*   - the pagination walkers (fetchUserRepos, fetchIssues,                *)
(*     fetchPullRequests) and fetchCommitActivity,                         *)
(*   - the analysis run of hooks/useGithubData.ts,                         *)
(*   - the bus-factor calculator of analytics/busFactor.ts.                *)
(* Each subsystem has its own specification (SpecFetch, SpecApi, SpecBus,  *)
(* SpecRun); the variables of the other subsystems stay idle in it.        *)
(***************************************************************************)
EXTENDS Integers, Sequences, FiniteSets, TLC

(***************************************************************************)
(* Bounds of the model (inputs are drawn from sets of these sizes).        *)
(***************************************************************************)
\* reset*1000 - Date.now() of a rate-limit response whose reset lies ahead
ResetWaitMs == 5000

\* number of pages the mock list endpoint holds (later pages are empty)
MaxPages == 3
\* longest contributor list handed to calculateBusFactor
MaxContributors == 3
\* repositories of the analysed user when the detail endpoints can fail
MaxRepos == 2
\* repositories of the analysed user when the detail endpoints are healthy
MaxBatchRepos == 6
\* per-repository bus factor results given to calculateGlobalBusFactor
MaxBusResults == 4
\* real issues given to calculateHealthScore
MaxIssues == 10
\* pull requests given to calculateHealthScore
MaxPulls == 5
\* per-repository health results given to calculateAverageHealthScore
MaxHealthResults == 3
\* length of a run of equal weeks in a commit activity series
MaxRun == 10
\* commits given to calculateStressScore
MaxCommits == 3
\* repositories given to aggregateCommitActivity
MaxTimelineRepos == 2
\* per-repository bus factor results given to generateInsights
MaxInsightBusFactors == 2
\* repositories of the user the insights are about
MaxTotalRepos == 4
\* requests the todo server handles in one run
MaxTodoRequests == 4
\* requests the todo client sends in one run
MaxClientOps == 2
\* repositories of each of the two handles the hook is given in turn
MaxSwitchRepos == 2
\* calls of fetchAllData (renders of the hook with another handle)
MaxSwitchRuns == 3
\* submissions of the chat form in one run
MaxSubmits == 2
\* data lines of one /chat response
MaxEvents == 2

(***************************************************************************)
(* Program constants.                                                      *)
(***************************************************************************)
\* fetchWithRetry(url, retries = 3)
retries == 3
\* setTimeout(resolve, 1000 * (i + 1))
BackoffUnitMs == 1000
\* const perPage = 100
perPage == 100
\* fetchCommitActivity: setTimeout(resolve, 2000) before the second request
StatsRetryWaitMs == 2000
\* useGithubData: const batchSize = 5
batchSize == 5
\* useGithubData: setTimeout(resolve, 1000) between batches
BatchDelayMs == 1000

(***************************************************************************)
(* Server responses as the fetch client sees them: the HTTP status, the    *)
(* X-RateLimit-Remaining header, whether X-RateLimit-Reset is present and   *)
(* the value of parseInt(reset) * 1000 - Date.now() when it is consulted.   *)
(***************************************************************************)
Resp(st, rem, hasReset, waitMs) ==
  [status |-> st, remaining |-> rem, reset |-> hasReset, wait |-> waitMs]

PlainStatuses == {200, 202, 204, 404, 500}

Responses ==
  { Resp(st, "60", TRUE, ResetWaitMs) : st \in PlainStatuses }
    \cup { Resp(403, "0", TRUE, ResetWaitMs),   \* quota exhausted, reset ahead
           Resp(403, "0", TRUE, 0),             \* quota exhausted, reset passed
           Resp(403, "0", FALSE, 0),            \* quota exhausted, no reset header
           Resp(403, "59", TRUE, ResetWaitMs) } \* forbidden, quota left

NoResponse == Resp(0, "", FALSE, 0)

\* Response.ok: status in the range 200-299
ResponseOk(r) == r.status >= 200 /\ r.status <= 299

\* the rate-limit signal of the specification: 403 with no quota remaining
IsRateLimitSignal(r) == r.status = 403 /\ r.remaining = "0"

(***************************************************************************)
(* State.                                                                  *)
(***************************************************************************)
VARIABLES
  fpc,      \* fetchWithRetry: "idle", "loop", "got", "returned", "thrown"
  fi,       \* fetchWithRetry: the loop counter i
  fresp,    \* fetchWithRetry: the response of the last request
  ferr,     \* fetchWithRetry: message of the thrown Error, "" if none
  flog      \* fetchWithRetry: requests issued and sleeps taken, in order

fetchVars == <<fpc, fi, fresp, ferr, flog>>

VARIABLES
  srv,      \* the mock server: sizes of the pages of its list endpoint
  afn,      \* the API function under call, "none" if none
  apc,      \* its position: "idle", "call", "await", "returned", "rejected"
  apage,    \* walkers: let page
  aacc,     \* walkers: the accumulator (repos / issues / prs)
  aret,     \* the value the function resolved with
  aerr,     \* the message of the Error it rejected with, "" if none
  acalls,   \* the page of every fetchWithRetry call made, in order
  aslept,   \* ms the function itself slept (fetchCommitActivity)
  acaught   \* whether a catch block of the function ran

apiVars == <<srv, afn, apc, apage, aacc, aret, aerr, acalls, aslept, acaught>>

VARIABLES
  contributors, \* calculateBusFactor: the argument
  bpc,          \* calculateBusFactor: "idle", "ready", "done"
  bfres         \* calculateBusFactor: the BusFactorResult returned

busVars == <<contributors, bpc, bfres>>

VARIABLES
  srvRepos,     \* the repositories the server lists for the user
  srvFaulty,    \* whether the detail endpoints of the server can fail
  data,         \* useGithubData: the React state `data`
  rpc,          \* fetchAllData: "idle", "fetching", "awaitBatch", "delay",
                \*               "done"
  userP,        \* the promise of fetchUser: "none", "pending", "ok", or the
                \* message of its rejection
  reposP,       \* the promise of fetchUserRepos, likewise
  publicRepos,  \* const publicRepos
  repoDataPromises, \* the promises made by publicRepos.map(async ...)
  bi,           \* the loop variable i of the batch loop
  allRepoData,  \* const allRepoData
  slept         \* ms spent in the inter-batch delays

runVars == <<srvRepos, srvFaulty, data, rpc, userP, reposP, publicRepos,
             repoDataPromises, bi, allRepoData, slept>>

VARIABLES
  cfn,          \* the aggregate calculator under call, "none" if none
  cpc,          \* its position: "idle", "called", "done"
  cargs,        \* its arguments, by parameter name
  cres          \* the value it returned

calcVars == <<cfn, cpc, cargs, cres>>

VARIABLES
  todos,        \* server.js: let todos (createdAt left out)
  nextId,       \* server.js: let nextId
  treq,         \* the request the server handled last
  tres,         \* the response it gave
  served,       \* the number of requests handled
  issued,       \* history: the ids given to new todos, in order
  removed,      \* history: the ids of the todos removed so far
  clientTodos,  \* public/app.js: let todos
  sent,         \* requests of the client the server has not handled yet
  inbox,        \* responses the client has not received yet
  ops,          \* the number of requests the client has sent
  editing       \* the todo whose text is under edit: its id and the
                \* originalText editTodo read, NoEdit if none

todoVars == <<todos, nextId, treq, tres, served, issued, removed,
              clientTodos, sent, inbox, ops, editing>>

VARIABLES
  username,     \* useGithubData: the argument of the hook at the last render
  userRepos,    \* the repositories the server lists for each handle
  runs          \* the calls of fetchAllData so far, in order: the handle of
                \* each and its position "fetching", "details", "done",
                \* "failed"

switchVars == <<username, userRepos, runs>>

VARIABLES
  user,         \* github-chatbot.tsx: the prop `user` at the last render,
                \* NullValue without one
  messages,     \* the React state `messages`
  input,        \* the React state `input`
  isGenerating, \* the React state `isGenerating`
  chatPc,       \* handleSend: "idle", "fetching" (await fetch), "reading"
                \* (await reader.read())
  fullContent,  \* handleSend: let fullContent
  assistantMessageId, \* handleSend: const assistantMessageId
  linesRead,    \* the data lines read from the response so far
  inFlight,     \* history: the /chat requests under way
  submits,      \* history: the submissions of the form so far
  sawError,     \* history: the error field of a data line of this request
  now           \* Date.now()

chatVars == <<user, messages, input, isGenerating, chatPc, fullContent,
              assistantMessageId, linesRead, inFlight, submits, sawError,
              now>>

vars == <<fetchVars, apiVars, busVars, runVars, calcVars, todoVars, switchVars, chatVars>>

\* what the steps of one subsystem leave alone
outsideFetch == <<apiVars, busVars, runVars, calcVars, todoVars, switchVars, chatVars>>
outsideApi == <<busVars, runVars, calcVars, todoVars, switchVars, chatVars>>
outsideBus == <<fetchVars, apiVars, runVars, calcVars, todoVars, switchVars, chatVars>>
outsideRun == <<fetchVars, apiVars, busVars, calcVars, todoVars, switchVars, chatVars>>
outsideCalc == <<fetchVars, apiVars, busVars, runVars, todoVars, switchVars, chatVars>>
outsideTodo == <<fetchVars, apiVars, busVars, runVars, calcVars, switchVars, chatVars>>
outsideSwitch == <<fetchVars, apiVars, busVars, runVars, calcVars, todoVars, chatVars>>
outsideChat == <<fetchVars, apiVars, busVars, runVars, calcVars, todoVars, switchVars>>

\* no calculator call under way
NoArgs == <<>>
NoResult == <<>>
CalcIdle == cfn = "none" /\ cpc = "idle" /\ cargs = NoArgs /\ cres = NoResult

(***************************************************************************)
(* fetchWithRetry and handleRateLimit (api/github.ts).                     *)
(***************************************************************************)
ReqEvent(r) == [e |-> "req", r |-> r, ms |-> 0]
SleepEvent(why, ms) == [e |-> why, r |-> NoResponse, ms |-> ms]
\* a request that got no response: fetch(url) rejected
FailedEvent == [e |-> "failed", r |-> NoResponse, ms |-> 0]

ErrNotFound == "Resource not found"
\* the message of the TypeError a rejecting fetch() throws
ErrFailedToFetch == "Failed to fetch"
ErrExhausted == "Failed to fetch url after 3 retries"

\* handleRateLimit(response): the sleeps it takes (none or one)
handleRateLimit(r) ==
  IF r.remaining = "0" /\ r.reset
    THEN IF r.wait > 0 THEN <<SleepEvent("ratelimit", r.wait)>> ELSE <<>>
    ELSE <<>>

\* the loop counter after a 403 response: `continue` runs the i++ of the loop
AfterRateLimit(i) == i + 1

\* the sleeps after a non-success, non-404, non-403 response at counter i
backoff(i) ==
  IF i < retries - 1
    THEN <<SleepEvent("backoff", BackoffUnitMs * (i + 1))>>
    ELSE <<>>

FetchIdle ==
  /\ fpc = "idle" /\ fi = 0 /\ fresp = NoResponse /\ ferr = "" /\ flog = <<>>

\* the call fetchWithRetry(url): let i = 0
FetchCalled ==
  /\ fpc = "loop" /\ fi = 0 /\ fresp = NoResponse /\ ferr = "" /\ flog = <<>>

\* the caller starts a call / has consumed the outcome of one
FetchBegin ==
  /\ fpc' = "loop" /\ fi' = 0 /\ fresp' = NoResponse /\ ferr' = ""
  /\ flog' = <<>>

FetchReset ==
  /\ fpc' = "idle" /\ fi' = 0 /\ fresp' = NoResponse /\ ferr' = ""
  /\ flog' = <<>>

\* a loop condition that admits one iteration too many
LoopCondition_OffByOne(i) == i <= retries

\* for (let i = 0; i < retries; i++)
LoopCondition(i) == i < retries

\* const response = await fetch(url, { headers })
FetchRequest ==
  /\ fpc = "loop" /\ LoopCondition(fi)
  /\ \E r \in Responses :
       /\ fresp' = r
       /\ flog' = Append(flog, ReqEvent(r))
  /\ fpc' = "got"
  /\ UNCHANGED <<fi, ferr, outsideFetch>>

\* await fetch(url, { headers }) rejects (no response: network failure);
\* nothing in fetchWithRetry catches it, so the call rejects with that error
FetchRejects ==
  /\ fpc = "loop" /\ LoopCondition(fi)
  /\ flog' = Append(flog, FailedEvent)
  /\ fpc' = "thrown"
  /\ ferr' = ErrFailedToFetch
  /\ UNCHANGED <<fi, fresp, outsideFetch>>

\* if (response.status === 403) { await handleRateLimit(response); continue; }
FetchOn403 ==
  /\ fpc = "got" /\ fresp.status = 403
  /\ flog' = flog \o handleRateLimit(fresp)
  /\ fi' = AfterRateLimit(fi)
  /\ fpc' = "loop"
  /\ UNCHANGED <<fresp, ferr, outsideFetch>>

\* if (response.ok) return response
FetchOnOk ==
  /\ fpc = "got" /\ fresp.status # 403 /\ ResponseOk(fresp)
  /\ fpc' = "returned"
  /\ UNCHANGED <<fi, fresp, ferr, flog, outsideFetch>>

\* a 404 handled like any other failure: back off and try again
FetchOn404_Retried ==
  /\ fpc = "got" /\ fresp.status # 403 /\ ~ResponseOk(fresp)
  /\ fresp.status = 404
  /\ flog' = flog \o backoff(fi)
  /\ fi' = fi + 1
  /\ fpc' = "loop"
  /\ UNCHANGED <<fresp, ferr, outsideFetch>>

\* if (response.status === 404) throw new Error("Resource not found")
FetchOn404 ==
  /\ fpc = "got" /\ fresp.status # 403 /\ ~ResponseOk(fresp)
  /\ fresp.status = 404
  /\ fpc' = "thrown"
  /\ ferr' = ErrNotFound
  /\ UNCHANGED <<fi, fresp, flog, outsideFetch>>

\* if (i < retries - 1) await sleep(1000 * (i + 1)); then i++
FetchOnOther ==
  /\ fpc = "got" /\ fresp.status # 403 /\ ~ResponseOk(fresp)
  /\ fresp.status # 404
  /\ flog' = flog \o backoff(fi)
  /\ fi' = fi + 1
  /\ fpc' = "loop"
  /\ UNCHANGED <<fresp, ferr, outsideFetch>>

\* the loop ends: throw new Error(`Failed to fetch ${url} after ${retries} retries`)
FetchExhausted ==
  /\ fpc = "loop" /\ ~LoopCondition(fi)
  /\ fpc' = "thrown"
  /\ ferr' = ErrExhausted
  /\ UNCHANGED <<fi, fresp, flog, outsideFetch>>

FetchStep ==
  \/ FetchRequest
  \/ FetchRejects
  \/ FetchOn403
  \/ FetchOnOk
  \/ FetchOn404
  \/ FetchOnOther
  \/ FetchExhausted

(***************************************************************************)
(* The documents of the GitHub API (the interfaces of api/github.ts).      *)
(* Timestamps are hours since the epoch; NullTime is a null timestamp.     *)
(***************************************************************************)
NullTime == 0 - 1

Contributor(login, n) == [login |-> login, contributions |-> n]
CommitActivity(week, total) == [week |-> week, total |-> total]
Issue(state, isPR) == [state |-> state, pull_request |-> isPR]
PullRequest(merged, created, mergedAt) ==
  [merged |-> merged, created_at |-> created, merged_at |-> mergedAt]
GitHubRepo(name, private) == [full_name |-> name, private |-> private]

\* what the mock server holds for a repository
SampleContributors == <<Contributor("alice", 70), Contributor("bob", 30)>>
SampleActivity ==
  <<CommitActivity(1, 4), CommitActivity(2, 0), CommitActivity(3, 2)>>
SampleIssues ==
  <<Issue("closed", FALSE), Issue("open", FALSE), Issue("closed", TRUE)>>
SamplePulls ==
  <<PullRequest(TRUE, 100, 120), PullRequest(FALSE, 100, NullTime)>>

(***************************************************************************)
(* The API functions of api/github.ts on top of fetchWithRetry.            *)
(***************************************************************************)
ApiIdle ==
  /\ srv = <<>> /\ afn = "none" /\ apc = "idle" /\ apage = 0
  /\ aacc = <<>> /\ aret = <<>> /\ aerr = "" /\ acalls = <<>>
  /\ aslept = 0 /\ acaught = FALSE

Walkers == {"fetchUserRepos", "fetchIssues", "fetchPullRequests"}
ApiFunctions ==
  Walkers \cup {"fetchUser", "fetchContributors", "fetchCommitActivity"}

\* the sizes a page of the mock list endpoint can have
PageSizes == {0, 37, perPage}

\* the records on page p of the list endpoint (pages past the last are empty)
ServerPage(p) ==
  IF p \in 1..Len(srv)
    THEN [k \in 1..srv[p] |-> (p - 1) * perPage + k]
    ELSE <<>>

\* the documents of the single-resource endpoints
UserBody == <<"octocat">>
ContributorsBody == SampleContributors
ActivityBody == SampleActivity

\* the decoded body of a successful response to the function's request
Body(fn, p) ==
  CASE fn \in Walkers -> ServerPage(p)
    [] fn = "fetchUser" -> UserBody
    [] fn = "fetchContributors" -> ContributorsBody
    [] OTHER -> ActivityBody

\* response.json() resolves unless the response has no content (204)
JsonResolves(r) == r.status # 204
ErrJson == "Unexpected end of JSON input"

\* the functions whose body is wrapped in try { ... } catch { return [] }
CatchesErrors(fn) ==
  fn \in {"fetchContributors", "fetchCommitActivity", "fetchIssues",
          "fetchPullRequests"}

\* the functions that hand response.json() to `return` without awaiting it,
\* so that its rejection is not seen by the surrounding try/catch
ReturnsJsonPromise(fn) ==
  fn \in {"fetchUser", "fetchContributors", "fetchCommitActivity"}

\* a short-page test that also stops on a full page
IsShortPage_Inclusive(batch) == Len(batch) <= perPage

\* if (data.length < perPage) break
IsShortPage(batch) == Len(batch) < perPage

ApiCalled(fn) ==
  /\ afn = fn /\ apc = "call"
  /\ apage = (IF fn \in Walkers THEN 1 ELSE 0)
  /\ aacc = <<>> /\ aret = <<>> /\ aerr = "" /\ acalls = <<>>
  /\ aslept = 0 /\ acaught = FALSE

\* the function resolves with v / rejects with e / its catch block returns []
ApiReturn(v) ==
  /\ apc' = "returned" /\ aret' = v
  /\ UNCHANGED <<aerr, acaught>>

ApiReject(e) ==
  /\ apc' = "rejected" /\ aerr' = e
  /\ UNCHANGED <<aret, acaught>>

\* a catch block that returns the records fetched so far
ApiCatch_Partial ==
  /\ apc' = "returned" /\ aret' = aacc /\ acaught' = TRUE
  /\ UNCHANGED aerr

ApiCatch ==
  /\ apc' = "returned" /\ aret' = <<>> /\ acaught' = TRUE
  /\ UNCHANGED aerr

\* an exception e raised inside the function body
ApiThrow(e) == IF CatchesErrors(afn) THEN ApiCatch ELSE ApiReject(e)

\* `return response.json()` of the non-walkers
ApiReturnJson(r) ==
  IF JsonResolves(r) THEN ApiReturn(Body(afn, apage))
  ELSE IF ReturnsJsonPromise(afn) THEN ApiReject(ErrJson)
  ELSE ApiThrow(ErrJson)

\* await fetchWithRetry(url): the request for the current page is started
ApiRequest ==
  /\ apc = "call"
  /\ FetchBegin
  /\ acalls' = Append(acalls, apage)
  /\ apc' = "await"
  /\ UNCHANGED <<srv, afn, apage, aacc, aret, aerr, aslept, acaught>>
  /\ UNCHANGED outsideApi

\* fetchWithRetry threw: the catch block returns [], fetchUser and
\* fetchUserRepos have none and reject
ApiOnFetchError ==
  /\ apc = "await" /\ fpc = "thrown"
  /\ ApiThrow(ferr)
  /\ FetchReset
  /\ UNCHANGED <<srv, afn, apage, aacc, acalls, aslept>>
  /\ UNCHANGED outsideApi

\* walkers: const data = await response.json() failed
WalkOnJsonError ==
  /\ apc = "await" /\ fpc = "returned" /\ afn \in Walkers
  /\ ~JsonResolves(fresp)
  /\ ApiThrow(ErrJson)
  /\ FetchReset
  /\ UNCHANGED <<srv, afn, apage, aacc, acalls, aslept>>
  /\ UNCHANGED outsideApi

\* walkers: if (data.length === 0) break; push(...data); page++;
\*          if (data.length < perPage) break;   and after the loop: return
WalkOnPage ==
  /\ apc = "await" /\ fpc = "returned" /\ afn \in Walkers
  /\ JsonResolves(fresp)
  /\ LET batch == Body(afn, apage) IN
       IF Len(batch) = 0
         THEN /\ ApiReturn(aacc)
              /\ UNCHANGED <<aacc, apage>>
         ELSE /\ aacc' = aacc \o batch
              /\ apage' = apage + 1
              /\ IF IsShortPage(batch)
                   THEN ApiReturn(aacc \o batch)
                   ELSE /\ apc' = "call"
                        /\ UNCHANGED <<aret, aerr, acaught>>
  /\ FetchReset
  /\ UNCHANGED <<srv, afn, acalls, aslept>>
  /\ UNCHANGED outsideApi

\* fetchUser, fetchContributors: return response.json()
SingleOnResponse ==
  /\ apc = "await" /\ fpc = "returned"
  /\ afn \in {"fetchUser", "fetchContributors"}
  /\ ApiReturnJson(fresp)
  /\ FetchReset
  /\ UNCHANGED <<srv, afn, apage, aacc, acalls, aslept>>
  /\ UNCHANGED outsideApi

\* fetchCommitActivity, first response: on 202 wait 2000 ms and request
\* again, otherwise return response.json()
ActivityOnFirst ==
  /\ apc = "await" /\ fpc = "returned" /\ afn = "fetchCommitActivity"
  /\ Len(acalls) = 1
  /\ IF fresp.status = 202
       THEN /\ aslept' = aslept + StatsRetryWaitMs
            /\ apc' = "call"
            /\ UNCHANGED <<aret, aerr, acaught>>
       ELSE /\ ApiReturnJson(fresp)
            /\ UNCHANGED aslept
  /\ FetchReset
  /\ UNCHANGED <<srv, afn, apage, aacc, acalls>>
  /\ UNCHANGED outsideApi

\* fetchCommitActivity, second response: [] on 202, else
\* return retryResponse.json()
ActivityOnRetry ==
  /\ apc = "await" /\ fpc = "returned" /\ afn = "fetchCommitActivity"
  /\ Len(acalls) = 2
  /\ IF fresp.status = 202
       THEN ApiReturn(<<>>)
       ELSE ApiReturnJson(fresp)
  /\ FetchReset
  /\ UNCHANGED <<srv, afn, apage, aacc, acalls, aslept>>
  /\ UNCHANGED outsideApi

ApiStep ==
  \/ ApiRequest
  \/ ApiOnFetchError
  \/ WalkOnJsonError
  \/ WalkOnPage
  \/ SingleOnResponse
  \/ ActivityOnFirst
  \/ ActivityOnRetry

(***************************************************************************)
(* Exact arithmetic for the number-valued fields: a number is a fraction   *)
(* num/den with den > 0.                                                   *)
(***************************************************************************)
Rat(n, d) == [num |-> n, den |-> d]
RatEq(a, b) == a.num * b.den = b.num * a.den
RatLt(a, b) == a.num * b.den < b.num * a.den
RatLe(a, b) == a.num * b.den <= b.num * a.den
RatGt(a, b) == RatLt(b, a)
RatAdd(a, b) == Rat(a.num * b.den + b.num * a.den, a.den * b.den)
RatSub(a, b) == Rat(a.num * b.den - b.num * a.den, a.den * b.den)
RatMul(a, b) == Rat(a.num * b.num, a.den * b.den)
RatMax(a, b) == IF RatLt(a, b) THEN b ELSE a
RatInt(n) == Rat(n, 1)

(***************************************************************************)
(* IEEE 754 doubles, for the places where the code adds, multiplies or     *)
(* divides fractions before rounding.  A natural number of any size is the *)
(* sequence of its base-256 digits, most significant first; a non-negative *)
(* double is m * 2^e with m of exactly 53 bits (m empty for 0).  Every     *)
(* operation computes the exact result and rounds it to the nearest        *)
(* double, ties to even, as the hardware does.  The operations are         *)
(* functions, so that an argument is evaluated once.                       *)
(***************************************************************************)
Bigs == Seq(Nat)
Doubles == [m : Bigs, e : Int]

BigNorm[x \in Bigs] ==
  IF x = <<>> THEN <<>> ELSE IF x[1] = 0 THEN BigNorm[Tail(x)] ELSE x

BigFromInt[n \in Nat] ==
  IF n = 0 THEN <<>>
  ELSE Append(BigFromInt[n \div 256], n % 256)

BigToInt[x \in Bigs] ==
  IF x = <<>> THEN 0
  ELSE BigToInt[SubSeq(x, 1, Len(x) - 1)] * 256 + x[Len(x)]

\* x * k + carry, for k below 2^22
BigMulAdd[x \in Bigs, k \in Nat, carry \in Nat] ==
  IF x = <<>> THEN BigFromInt[carry]
  ELSE Append(BigMulAdd[SubSeq(x, 1, Len(x) - 1), k,
                        (x[Len(x)] * k + carry) \div 256],
              (x[Len(x)] * k + carry) % 256)

BigMul[x \in Bigs, k \in Nat] == BigNorm[BigMulAdd[x, k, 0]]

\* quotient and remainder of x by n, for n below 2^22
BigDivRem[x \in Bigs, n \in Nat] ==
  IF x = <<>> THEN [q |-> <<>>, r |-> 0]
  ELSE LET up == BigDivRem[SubSeq(x, 1, Len(x) - 1), n]
           v == up.r * 256 + x[Len(x)]
       IN [q |-> Append(up.q, v \div n), r |-> v % n]

BigAddCarry[x \in Bigs, y \in Bigs, carry \in Nat] ==
  IF x = <<>> /\ y = <<>> THEN BigFromInt[carry]
  ELSE LET a == IF x = <<>> THEN 0 ELSE x[Len(x)]
           b == IF y = <<>> THEN 0 ELSE y[Len(y)]
           v == a + b + carry
       IN Append(BigAddCarry[IF x = <<>> THEN x ELSE SubSeq(x, 1, Len(x) - 1),
                             IF y = <<>> THEN y ELSE SubSeq(y, 1, Len(y) - 1),
                             v \div 256],
                 v % 256)

BigAdd[x \in Bigs, y \in Bigs] == BigNorm[BigAddCarry[x, y, 0]]

\* x - y - borrow, for x >= y + borrow
BigSubBorrow[x \in Bigs, y \in Bigs, borrow \in Nat] ==
  IF x = <<>> THEN <<>>
  ELSE LET b == (IF y = <<>> THEN 0 ELSE y[Len(y)]) + borrow
       IN Append(BigSubBorrow[SubSeq(x, 1, Len(x) - 1),
                              IF y = <<>> THEN y ELSE SubSeq(y, 1, Len(y) - 1),
                              IF x[Len(x)] < b THEN 1 ELSE 0],
                 (x[Len(x)] + 256 - b) % 256)

BigSub[x \in Bigs, y \in Bigs] == BigNorm[BigSubBorrow[x, y, 0]]

BigLt[x \in Bigs, y \in Bigs] ==
  IF Len(x) # Len(y) THEN Len(x) < Len(y)
  ELSE IF x = <<>> THEN FALSE
  ELSE IF x[1] # y[1] THEN x[1] < y[1]
  ELSE BigLt[Tail(x), Tail(y)]

\* the largest d + b, b below 2 * bit, with y * (d + b) <= rem
BigDivDigit[rem \in Bigs, y \in Bigs, d \in Nat, bit \in Nat] ==
  IF bit = 0 THEN d
  ELSE IF BigLt[rem, BigMul[y, d + bit]]
         THEN BigDivDigit[rem, y, d, bit \div 2]
  ELSE BigDivDigit[rem, y, d + bit, bit \div 2]

\* the digit d is appended to the quotient and taken from the remainder
BigDivTake[q \in Bigs, rem \in Bigs, y \in Bigs, d \in Nat] ==
  [q |-> Append(q, d), r |-> BigSub[rem, BigMul[y, d]]]

\* one step of the long division by y: the next digit of the quotient
BigDivStep[q \in Bigs, rem \in Bigs, y \in Bigs] ==
  BigDivTake[q, rem, y, BigDivDigit[rem, y, 0, 128]]

\* the division goes on with the digit limb of the dividend
BigDivNext[up \in [q : Bigs, r : Bigs], limb \in Nat, y \in Bigs] ==
  BigDivStep[up.q, BigNorm[Append(up.r, limb)], y]

\* quotient and remainder of x by y > 0
BigDivBig[x \in Bigs, y \in Bigs] ==
  IF x = <<>> THEN [q |-> <<>>, r |-> <<>>]
  ELSE BigDivNext[BigDivBig[SubSeq(x, 1, Len(x) - 1), y], x[Len(x)], y]

Pow2[k \in Nat] == IF k = 0 THEN 1 ELSE 2 * Pow2[k - 1]

\* the number of binary digits of n
BitLength[n \in Nat] == IF n = 0 THEN 0 ELSE 1 + BitLength[n \div 2]

BigBitLength[x \in Bigs] ==
  IF x = <<>> THEN 0 ELSE 8 * (Len(x) - 1) + BitLength[x[1]]

BigIsOdd[x \in Bigs] == x # <<>> /\ x[Len(x)] % 2 = 1

\* x * 2^k
BigShiftLeft[x \in Bigs, k \in Nat] ==
  BigMul[x, Pow2[k % 8]] \o [i \in 1..(k \div 8) |-> 0]

\* whether some digit of x is not 0
BigNonZero[x \in Bigs] == \E i \in 1..Len(x) : x[i] # 0

\* kept \div 2^k for k < 8, and whether kept or dropped leaves a remainder
BigShiftBits[kept \in Bigs, dropped \in Bigs, k \in Nat] ==
  [q |-> BigNorm[BigDivRem[kept, Pow2[k]].q],
   sticky |-> BigDivRem[kept, Pow2[k]].r # 0 \/ BigNonZero[dropped]]

\* x without its last limbs digits, shifted right by k < 8 bits
BigShiftLimbs[x \in Bigs, limbs \in Nat, k \in Nat] ==
  IF limbs >= Len(x) THEN BigShiftBits[<<>>, x, k]
  ELSE BigShiftBits[SubSeq(x, 1, Len(x) - limbs),
                    SubSeq(x, Len(x) - limbs + 1, Len(x)), k]

\* x \div 2^k, and whether a non-zero remainder was dropped
BigShiftRight[x \in Bigs, k \in Nat] == BigShiftLimbs[x, k \div 8, k % 8]

Double(m, e) == [m |-> m, e |-> e]
DoubleZero == Double(<<>>, 0)

\* m * 2^e for m of 53 or 54 bits, as a double
Renormalized[m \in Bigs, e \in Int] ==
  IF BigBitLength[m] > 53 THEN Double(BigShiftRight[m, 1].q, e + 1)
  ELSE Double(m, e)

\* q * 2^e plus half of 2^e if half, plus a smaller fraction if sticky, for q
\* of 53 bits: rounded to the nearest double, ties to even
RoundHalfEven[q \in Bigs, half \in BOOLEAN, sticky \in BOOLEAN, e \in Int] ==
  Renormalized[IF half /\ (sticky \/ BigIsOdd[q]) THEN BigAdd[q, <<1>>] ELSE q,
               e]

\* upper.q holds the 54 leading bits of a number, the last of them the half
RoundUpper[upper \in [q : Bigs, sticky : BOOLEAN], sticky \in BOOLEAN, e \in Int] ==
  RoundHalfEven[BigShiftRight[upper.q, 1].q, BigIsOdd[upper.q],
                upper.sticky \/ sticky, e]

\* x * 2^e for x of len bits, as a double
RoundBits[x \in Bigs, len \in Nat, e \in Int, sticky \in BOOLEAN] ==
  IF len = 0 THEN DoubleZero
  ELSE IF len <= 53 THEN Double(BigShiftLeft[x, 53 - len], e - (53 - len))
  ELSE RoundUpper[BigShiftRight[x, len - 54], sticky, e + (len - 53)]

\* the double nearest to x * 2^e (plus a fraction of 2^e if sticky), ties to
\* even: the 53 leading bits of x, rounded; sticky is only set for x of more
\* than 54 bits
RoundToDouble[x \in Bigs, e \in Int, sticky \in BOOLEAN] ==
  RoundBits[x, BigBitLength[x], e, sticky]

\* the number n as a double
DoubleOf[n \in Nat] == RoundToDouble[BigFromInt[n], 0, FALSE]

\* a * k for an integer k >= 0
DoubleTimes[a \in Doubles, k \in Nat] ==
  RoundToDouble[BigMul[a.m, k], a.e, FALSE]

\* the quotient dr.q and whether a remainder dr.r is left, times 2^e
RoundQuotient[dr \in [q : Bigs, r : Nat], e \in Int] ==
  RoundToDouble[BigNorm[dr.q], e, dr.r # 0]

\* a / n with the numerator shifted left by s bits
DoubleOverShifted[a \in Doubles, n \in Nat, s \in Nat] ==
  RoundQuotient[BigDivRem[BigShiftLeft[a.m, s], n], a.e - s]

\* a / n for an integer n > 0
DoubleOver[a \in Doubles, n \in Nat] == DoubleOverShifted[a, n, BitLength[n] + 2]

\* a + b for a, b > 0, both written as multiples of 2^e
DoublePlusAt[a \in Doubles, b \in Doubles, e \in Int] ==
  RoundToDouble[BigAdd[BigShiftLeft[a.m, a.e - e], BigShiftLeft[b.m, b.e - e]],
                e, FALSE]

\* a + b
DoublePlus[a \in Doubles, b \in Doubles] ==
  IF a.m = <<>> THEN b
  ELSE IF b.m = <<>> THEN a
  ELSE DoublePlusAt[a, b, IF a.e < b.e THEN a.e ELSE b.e]

\* a < b
DoubleLt[a \in Doubles, b \in Doubles] ==
  IF b.m = <<>> THEN FALSE
  ELSE IF a.m = <<>> THEN TRUE
  ELSE IF a.e # b.e THEN a.e < b.e
  ELSE BigLt[a.m, b.m]

\* a - b for a >= b > 0, both written as multiples of 2^e
DoubleDiffAt[a \in Doubles, b \in Doubles, e \in Int] ==
  RoundToDouble[BigSub[BigShiftLeft[a.m, a.e - e], BigShiftLeft[b.m, b.e - e]],
                e, FALSE]

\* a - b for a >= b
DoubleDiff[a \in Doubles, b \in Doubles] ==
  IF b.m = <<>> THEN a ELSE DoubleDiffAt[a, b, b.e]

\* the quotient dr.q and whether a remainder dr.r is left, times 2^e
RoundBigQuotient[dr \in [q : Bigs, r : Bigs], e \in Int] ==
  RoundToDouble[BigNorm[dr.q], e, dr.r # <<>>]

\* a / b for b > 0: the quotient of the mantissas to 56 or 57 bits
DoubleDivide[a \in Doubles, b \in Doubles] ==
  IF a.m = <<>> THEN DoubleZero
  ELSE RoundBigQuotient[BigDivBig[BigShiftLeft[a.m, 56], b.m], a.e - 56 - b.e]

\* Math.min(a, b)
DoubleMin[a \in Doubles, b \in Doubles] == IF DoubleLt[b, a] THEN b ELSE a

\* NaN, the value of 0 / 0: its exponent lies beyond that of every number
NaN == Double(<<1>>, 1024)

\* Number.isNaN(x)
isNaN(x) == x = NaN

\* Number.isFinite(x), no operation of the model gives an infinity
isFinite(x) == x # NaN

\* x > y, false when either side is NaN
NumGt(x, y) == ~isNaN(x) /\ ~isNaN(y) /\ DoubleLt[y, x]

\* a number that can be negative: its sign and its absolute value
Signed(neg, abs) == [neg |-> neg, abs |-> abs]

\* a - b
DoubleMinus(a, b) ==
  IF DoubleLt[a, b] THEN Signed(TRUE, DoubleDiff[b, a])
  ELSE Signed(FALSE, DoubleDiff[a, b])

\* the double of the fraction r: num / den
DoubleOfRat(r) == DoubleOver[DoubleOf[r.num], r.den]

\* Math.floor(a)
DoubleFloor[a \in Doubles] ==
  IF a.m = <<>> THEN 0
  ELSE IF a.e >= 0 THEN BigToInt[BigShiftLeft[a.m, a.e]]
  ELSE BigToInt[BigShiftRight[a.m, 0 - a.e].q]

\* a + 1/2, exactly
PlusHalf[a \in Doubles] ==
  IF a.m = <<>> THEN Double(<<1>>, 0 - 1)
  ELSE IF a.e >= 0 THEN a
  ELSE Double(BigAdd[a.m, BigShiftLeft[<<1>>, 0 - a.e - 1]], a.e)

\* Math.floor instead of Math.round
DoubleRound_Floor(a) == DoubleFloor[a]

\* Math.round(a): floor(a + 1/2), computed exactly
DoubleRound(a) == DoubleFloor[PlusHalf[a]]

(***************************************************************************)
(* calculateBusFactor (analytics/busFactor.ts).                            *)
(***************************************************************************)
\* contributors.reduce((sum, c) => sum + c.contributions, 0)
RECURSIVE totalContributions(_)
totalContributions(cs) ==
  IF Len(cs) = 0 THEN 0
  ELSE cs[1].contributions + totalContributions(Tail(cs))

\* thresholds that already classify a share of exactly 0.6 / 0.4 upwards
riskOf_Inclusive(ratio) ==
  IF RatLe(Rat(6, 10), ratio) THEN "HIGH"
  ELSE IF RatLe(Rat(4, 10), ratio) THEN "MEDIUM"
  ELSE "LOW"

\* if (ratio > 0.6) HIGH else if (ratio > 0.4) MEDIUM else LOW
riskOf(ratio) ==
  IF RatGt(ratio, Rat(6, 10)) THEN "HIGH"
  ELSE IF RatGt(ratio, Rat(4, 10)) THEN "MEDIUM"
  ELSE "LOW"

BusFactorResult(risk, ratio, top, n, score) ==
  [risk |-> risk, topContributorRatio |-> ratio, topContributor |-> top,
   totalContributors |-> n, score |-> score]

calculateBusFactor(cs) ==
  IF Len(cs) = 0
    THEN BusFactorResult("LOW", RatInt(0), "", 0, RatInt(100))
  ELSE IF totalContributions(cs) = 0
    THEN BusFactorResult("LOW", RatInt(0), "", Len(cs), RatInt(100))
  ELSE
    LET topContributor == cs[1]
        topContributorRatio ==
          Rat(topContributor.contributions, totalContributions(cs))
        score ==
          RatMax(RatInt(0),
                 RatSub(RatInt(100), RatMul(topContributorRatio, RatInt(100))))
    IN BusFactorResult(riskOf(topContributorRatio), topContributorRatio,
                       topContributor.login, Len(cs), score)

NoBusFactor == BusFactorResult("", RatInt(0), "", 0, RatInt(0))

BusIdle == contributors = <<>> /\ bpc = "idle" /\ bfres = NoBusFactor

\* the contribution counts and logins the inputs are drawn from
ContribValues == {0, 30, 40, 60, 70}
Logins == <<"alice", "bob", "carol", "dave", "erin">>

ContributorLists ==
  UNION { { [i \in 1..n |-> Contributor(Logins[i], v[i])] :
              v \in [1..n -> ContribValues] } : n \in 0..MaxContributors }

\* const bf = calculateBusFactor(contributors)
CalcBusFactor ==
  /\ bpc = "ready"
  /\ bfres' = calculateBusFactor(contributors)
  /\ bpc' = "done"
  /\ UNCHANGED contributors
  /\ UNCHANGED outsideBus

(***************************************************************************)
(* calculateHealthScore (analytics/healthScore.ts).                        *)
(***************************************************************************)

\* seq.filter(test).length, for the tests of the calculators
CountRealIssues(issues) ==
  Cardinality({i \in 1..Len(issues) : ~issues[i].pull_request})
\* a count that forgets to leave the pull requests out
CountClosedIssues_WithPulls(issues) ==
  Cardinality({i \in 1..Len(issues) : issues[i].state = "closed"})

CountClosedIssues(issues) ==
  Cardinality({i \in 1..Len(issues) :
                 ~issues[i].pull_request /\ issues[i].state = "closed"})
CountMerged(prs) == Cardinality({i \in 1..Len(prs) : prs[i].merged})

\* pr.merged && pr.merged_at && pr.created_at
HasMergeTime(pr) ==
  pr.merged /\ pr.merged_at # NullTime /\ pr.created_at # NullTime

CountWithMergeTime(prs) ==
  Cardinality({i \in 1..Len(prs) : HasMergeTime(prs[i])})

\* mergedPRsWithTime.reduce((sum, pr) => sum + (merged - created), 0)
RECURSIVE totalMergeTime(_)
totalMergeTime(prs) ==
  IF prs = <<>> THEN 0
  ELSE (IF HasMergeTime(prs[1])
          THEN prs[1].merged_at - prs[1].created_at ELSE 0)
       + totalMergeTime(Tail(prs))

\* the milliseconds of an hour: 1000 * 60 * 60
MsPerHour == 1000 * 60 * 60

\* totalMergeTime / mergedPRsWithTime.length / (1000 * 60 * 60); the sum of
\* the millisecond differences is a whole number and exact
avgMergeTimeOf(prs) ==
  LET ms == RoundToDouble[BigMul[BigFromInt[totalMergeTime(prs)], MsPerHour],
                          0, FALSE]
  IN DoubleOver[DoubleOver[ms, CountWithMergeTime(prs)], MsPerHour]

\* thresholds that exclude the boundary scores
gradeOf_Exclusive(score) ==
  IF DoubleLt[DoubleOf[80], score] THEN "EXCELLENT"
  ELSE IF DoubleLt[DoubleOf[60], score] THEN "GOOD"
  ELSE IF DoubleLt[DoubleOf[40], score] THEN "FAIR"
  ELSE "POOR"

\* score >= 80 EXCELLENT, >= 60 GOOD, >= 40 FAIR, else POOR
gradeOf(score) ==
  IF ~DoubleLt[score, DoubleOf[80]] THEN "EXCELLENT"
  ELSE IF ~DoubleLt[score, DoubleOf[60]] THEN "GOOD"
  ELSE IF ~DoubleLt[score, DoubleOf[40]] THEN "FAIR"
  ELSE "POOR"

\* the number Math.round(x * 10) / 10: the double nearest to tenths / 10,
\* written as that fraction
Tenths(tenths) == Rat(tenths, 10)

calculateHealthScore(issues, prs) ==
  LET totalIssues == CountRealIssues(issues)
      closedIssues == CountClosedIssues(issues)
      totalPRs == Len(prs)
      mergedPRs == CountMerged(prs)
      avgMergeTimeHours ==
        IF CountWithMergeTime(prs) > 0 THEN avgMergeTimeOf(prs)
        ELSE DoubleZero
      issueResolution ==
        IF totalIssues > 0
          THEN DoubleTimes[DoubleOver[DoubleOf[closedIssues], totalIssues], 40]
          ELSE DoubleOf[40]
      prMergeRate ==
        IF totalPRs > 0
          THEN DoubleTimes[DoubleOver[DoubleOf[mergedPRs], totalPRs], 40]
          ELSE DoubleOf[40]
      prSpeed ==
        IF DoubleLt[DoubleZero, avgMergeTimeHours]
             /\ DoubleLt[avgMergeTimeHours, DoubleOf[48]]
          THEN 20 ELSE 0
      score ==
        DoubleRound(DoublePlus[DoublePlus[issueResolution, prMergeRate],
                               DoubleOf[prSpeed]])
  IN [score |-> score,
      grade |-> gradeOf(DoubleOf[score]),
      breakdown |-> [issueResolution |-> DoubleRound(issueResolution),
                     prMergeRate |-> DoubleRound(prMergeRate),
                     prSpeed |-> prSpeed],
      metrics |-> [totalIssues |-> totalIssues,
                   closedIssues |-> closedIssues,
                   totalPRs |-> totalPRs,
                   mergedPRs |-> mergedPRs,
                   avgMergeTimeHours |->
                     Tenths(DoubleRound(DoubleTimes[avgMergeTimeHours, 10]))]]

(***************************************************************************)
(* calculateActivityScore (analytics/commitStats.ts).                      *)
(***************************************************************************)
\* weeksToConsider = 12
weeksToConsider == 12

\* the first n entries instead of the last
LastN_First(seq, n) == IF Len(seq) <= n THEN seq ELSE SubSeq(seq, 1, n)

\* activities.slice(-n)
LastN(seq, n) ==
  IF Len(seq) <= n THEN seq ELSE SubSeq(seq, Len(seq) - n + 1, Len(seq))

RECURSIVE SumTotals(_)
SumTotals(acts) ==
  IF acts = <<>> THEN 0 ELSE acts[1].total + SumTotals(Tail(acts))

\* the least common multiple of 1..12: the average of the commits of at
\* most 12 weeks is a whole number of parts of this size
ThresholdUnit == 8 * 9 * 5 * 7 * 11

\* Math.round(Math.min(100, Math.log10(avg + 1) * 20)) reaches k exactly
\* when avg + 1 >= 10^((2k - 1)/40); entry k is that bound on avg + 1, which
\* is no fraction, rounded up to <<whole number, parts of ThresholdUnit>>
LogThresholds ==
  <<<<1, 1643>>, <<1, 5226>>, <<1, 9246>>, <<1, 13756>>, <<1, 18817>>,
     <<1, 24495>>, <<2, 3146>>, <<2, 10295>>, <<2, 18316>>, <<2, 27315>>,
     <<3, 9693>>, <<3, 21023>>, <<4, 6015>>, <<4, 20278>>, <<5, 8562>>,
     <<5, 26518>>, <<6, 18945>>, <<7, 13831>>, <<8, 11475>>, <<9, 12214>>,
     <<10, 16426>>, <<11, 24533>>, <<13, 9293>>, <<14, 26677>>, <<16, 21845>>,
     <<18, 23188>>, <<21, 3740>>, <<23, 19785>>, <<26, 16833>>, <<29, 23669>>,
     <<33, 13765>>, <<37, 16182>>, <<42, 4703>>, <<47, 8736>>, <<53, 2452>>,
     <<59, 15696>>, <<66, 23130>>, <<74, 27427>>, <<84, 3868>>, <<94, 11257>>,
     <<105, 25652>>, <<118, 23569>>, <<133, 9762>>, <<149, 17286>>, <<167, 24405>>,
     <<188, 10116>>, <<211, 9672>>, <<237, 3808>>, <<266, 2010>>, <<298, 14921>>,
     <<334, 26762>>, <<375, 23213>>, <<421, 19308>>, <<473, 4193>>, <<530, 24517>>,
     <<595, 18355>>, <<668, 9534>>, <<749, 24788>>, <<841, 10954>>, <<944, 1688>>,
     <<1059, 7034>>, <<1188, 13922>>, <<1333, 14455>>, <<1496, 6533>>, <<1678, 22288>>,
     <<1883, 17993>>, <<2113, 13557>>, <<2371, 10360>>, <<2660, 20099>>, <<2985, 10607>>,
     <<3349, 18140>>, <<3758, 10369>>, <<4216, 26751>>, <<4731, 14209>>, <<5308, 23408>>,
     <<5956, 17227>>, <<6683, 12174>>, <<7498, 26115>>, <<8413, 26374>>, <<9440, 16875>>,
     <<10592, 14893>>, <<11885, 618>>, <<13335, 5941>>, <<14962, 9884>>, <<16788, 1114>>,
     <<18836, 13608>>, <<21134, 24682>>, <<23713, 20432>>, <<26607, 6947>>, <<29853, 22902>>,
     <<33496, 15078>>, <<37583, 20525>>, <<42169, 18028>>, <<47315, 3490>>, <<53088, 12320>>,
     <<59566, 5942>>, <<66834, 10860>>, <<74989, 11669>>, <<84139, 14253>>, <<94406, 2430>>>>

\* avg + 1 >= 10^((2k - 1)/40), for avg with a denominator of at most 12:
\* left is (avg + 1 - the whole number of entry k) * avg.den
ReachesScore(avg, k, left) ==
  \/ left >= avg.den
  \/ left > 0 /\ left * (ThresholdUnit \div avg.den) >= LogThresholds[k][2]

Log10Score(avg) ==
  Cardinality({k \in 1..Len(LogThresholds) :
                 ReachesScore(avg, k, avg.num + avg.den
                                        - LogThresholds[k][1] * avg.den)})

\* the filter keeps only weeks with more than one commit
calculateActivityScore_Above1(activities) ==
  IF Len(activities) = 0 THEN 0
  ELSE
    LET recent == LastN(activities, weeksToConsider)
        kept == {i \in 1..Len(recent) : recent[i].total > 1}
        total == SumTotals([i \in 1..Len(recent) |->
                   IF i \in kept THEN recent[i] ELSE [recent[i] EXCEPT !.total = 0]])
    IN IF kept = {} THEN 0
       ELSE Log10Score(Rat(total, Cardinality(kept)))

calculateActivityScore(activities) ==
  IF Len(activities) = 0 THEN 0
  ELSE
    LET recent == LastN(activities, weeksToConsider)
        nonZero == Cardinality({i \in 1..Len(recent) : recent[i].total > 0})
    IN IF nonZero = 0 THEN 0
       ELSE Log10Score(Rat(SumTotals(recent), nonZero))

(***************************************************************************)
(* One analysis run of useGithubData (hooks/useGithubData.ts).  The API     *)
(* functions appear by their outcomes: fetchUser and fetchUserRepos        *)
(* resolve or reject; fetchIssues and fetchPullRequests resolve with the   *)
(* records or with []; fetchContributors and fetchCommitActivity resolve   *)
(* with the data or with [], or reject (see SpecApi).                      *)
(***************************************************************************)
NullValue == "null"
Username == "octocat"
RepoNames == <<"octocat/r1", "octocat/r2", "octocat/r3", "octocat/r4",
               "octocat/r5", "octocat/r6", "octocat/r7", "octocat/r8">>

EmptyMap == [n \in {} |-> 0]

\* useState<AnalyticsData>({ ... })
InitialData ==
  [user |-> NullValue, repos |-> <<>>, loading |-> FALSE, error |-> NullValue,
   busFactors |-> EmptyMap, healthScores |-> EmptyMap,
   activityScores |-> EmptyMap]

RunIdle ==
  /\ srvRepos = <<>> /\ srvFaulty = FALSE /\ data = InitialData
  /\ rpc = "idle" /\ userP = "none" /\ reposP = "none"
  /\ publicRepos = <<>> /\ repoDataPromises = <<>> /\ bi = 0
  /\ allRepoData = <<>> /\ slept = 0

\* the repository lists of at most n repositories, any of them private
RepoLists(n) ==
  UNION { { [i \in 1..k |-> GitHubRepo(RepoNames[i], i \in P)] :
              P \in SUBSET (1..k) } : k \in 0..n }

\* what fetchUser and fetchUserRepos reject with: the errors of
\* fetchWithRetry and the error of response.json()
FetchErrors == {ErrNotFound, ErrExhausted, ErrFailedToFetch, ErrJson}
Rejected(promise) == promise \in FetchErrors

\* how the four detail fetches of one repository end
FacetOutcome(c, a, i, p) ==
  [contributors |-> c, commitActivity |-> a, issues |-> i, pullRequests |-> p]

AllOk == FacetOutcome("ok", "ok", "ok", "ok")

FacetOutcomes ==
  IF srvFaulty
    THEN { FacetOutcome(c, a, i, p) :
             c \in {"ok", "empty", "rejected"},
             a \in {"ok", "empty", "rejected"},
             i \in {"ok", "empty"}, p \in {"ok", "empty"} }
    ELSE {AllOk}

\* a filter that keeps every repository
filterPublic_KeepAll(repos) == repos

\* repos.filter((repo) => !repo.private)
filterPublic(repos) == SelectSeq(repos, LAMBDA repo : ~repo.private)

\* the value of one promise of repoDataPromises: the four results, or the
\* empty collections of the catch block when one of the fetches rejected
repoData(repo, oc) ==
  IF oc.contributors = "rejected" \/ oc.commitActivity = "rejected"
    THEN [repo |-> repo, contributors |-> <<>>, commitActivity |-> <<>>,
          issues |-> <<>>, pullRequests |-> <<>>]
    ELSE [repo |-> repo,
          contributors |->
            IF oc.contributors = "ok" THEN SampleContributors ELSE <<>>,
          commitActivity |->
            IF oc.commitActivity = "ok" THEN SampleActivity ELSE <<>>,
          issues |-> IF oc.issues = "ok" THEN SampleIssues ELSE <<>>,
          pullRequests |-> IF oc.pullRequests = "ok" THEN SamplePulls ELSE <<>>]

InFlight(repo) == [state |-> "inflight", outcome |-> AllOk,
                   value |-> repoData(repo, AllOk)]

\* the statistics of allRepoData.forEach(...) as maps keyed by full_name
NamesOf(all) == {all[i].repo.full_name : i \in 1..Len(all)}
EntryOf(all, name) ==
  all[CHOOSE i \in 1..Len(all) :
        /\ all[i].repo.full_name = name
        /\ \A j \in (i + 1)..Len(all) : all[j].repo.full_name # name]

busFactorsOf(all) ==
  [n \in NamesOf(all) |-> calculateBusFactor(EntryOf(all, n).contributors)]
healthScoresOf(all) ==
  [n \in NamesOf(all) |->
     calculateHealthScore(EntryOf(all, n).issues, EntryOf(all, n).pullRequests)]
activityScoresOf(all) ==
  [n \in NamesOf(all) |-> calculateActivityScore(EntryOf(all, n).commitActivity)]

\* the last setData of the try block
Computed(d, all) ==
  [d EXCEPT !.busFactors = busFactorsOf(all),
            !.healthScores = healthScoresOf(all),
            !.activityScores = activityScoresOf(all),
            !.loading = FALSE]

\* fetchAllData(): setData({ loading: true, error: null }) and the calls of
\* fetchUser and fetchUserRepos
RunStart ==
  /\ rpc = "idle"
  /\ data' = [data EXCEPT !.loading = TRUE, !.error = NullValue]
  /\ userP' = "pending" /\ reposP' = "pending"
  /\ rpc' = "fetching"
  /\ UNCHANGED <<srvRepos, srvFaulty, publicRepos, repoDataPromises, bi,
                 allRepoData, slept>>
  /\ UNCHANGED outsideRun

\* the promise of fetchUser settles
UserSettles ==
  /\ userP = "pending"
  /\ userP' \in {"ok"} \cup FetchErrors
  /\ UNCHANGED <<srvRepos, srvFaulty, data, rpc, reposP, publicRepos,
                 repoDataPromises, bi, allRepoData, slept>>
  /\ UNCHANGED outsideRun

\* the promise of fetchUserRepos settles
ReposSettle ==
  /\ reposP = "pending"
  /\ reposP' \in {"ok"} \cup FetchErrors
  /\ UNCHANGED <<srvRepos, srvFaulty, data, rpc, userP, publicRepos,
                 repoDataPromises, bi, allRepoData, slept>>
  /\ UNCHANGED outsideRun

\* Promise.all([fetchUser, fetchUserRepos]) rejected: the outer catch
RunInitialFailed ==
  /\ rpc = "fetching"
  /\ \E p \in {userP, reposP} :
       /\ Rejected(p)
       /\ data' = [data EXCEPT !.error = p, !.loading = FALSE]
  /\ rpc' = "done"
  /\ UNCHANGED <<srvRepos, srvFaulty, userP, reposP, publicRepos,
                 repoDataPromises, bi, allRepoData, slept>>
  /\ UNCHANGED outsideRun

\* both resolved: filter, setData({ user, repos }), publicRepos.map(async ...)
\* which starts the detail fetches of every repository, and the batch loop
\* up to its first await (with no repository the statistics are computed)
RunGotRepos ==
  /\ rpc = "fetching" /\ userP = "ok" /\ reposP = "ok"
  /\ LET public == filterPublic(srvRepos)
         d == [data EXCEPT !.user = Username, !.repos = public]
     IN /\ publicRepos' = public
        /\ repoDataPromises' = [i \in 1..Len(public) |-> InFlight(public[i])]
        /\ IF Len(public) > 0
             THEN data' = d /\ rpc' = "awaitBatch"
             ELSE data' = Computed(d, <<>>) /\ rpc' = "done"
  /\ UNCHANGED <<srvRepos, srvFaulty, userP, reposP, bi, allRepoData, slept>>
  /\ UNCHANGED outsideRun

\* the four detail fetches of one repository have settled
RepoSettles ==
  /\ \E i \in 1..Len(repoDataPromises) :
       /\ repoDataPromises[i].state = "inflight"
       /\ \E oc \in FacetOutcomes :
            repoDataPromises' =
              [repoDataPromises EXCEPT
                 ![i] = [state |-> "resolved", outcome |-> oc,
                         value |-> repoData(publicRepos[i], oc)]]
  /\ UNCHANGED <<srvRepos, srvFaulty, data, rpc, userP, reposP, publicRepos,
                 bi, allRepoData, slept>>
  /\ UNCHANGED outsideRun

\* repoDataPromises.slice(i, i + batchSize)
BatchIdx(i) == {k \in 1..Len(repoDataPromises) : i < k /\ k <= i + batchSize}

\* await Promise.all(batch) resolved: push the results, then the delay if a
\* batch is left, else the statistics and the last setData
BatchResolved ==
  /\ rpc = "awaitBatch"
  /\ \A k \in BatchIdx(bi) : repoDataPromises[k].state = "resolved"
  /\ LET lo == bi + 1
         hi == IF bi + batchSize < Len(repoDataPromises)
                 THEN bi + batchSize ELSE Len(repoDataPromises)
         all == allRepoData
                  \o [k \in 1..(hi - bi) |-> repoDataPromises[bi + k].value]
     IN /\ allRepoData' = all
        /\ IF bi + batchSize < Len(repoDataPromises)
             THEN /\ rpc' = "delay"
                  /\ UNCHANGED <<data, bi>>
             ELSE /\ bi' = bi + batchSize
                  /\ data' = Computed(data, all)
                  /\ rpc' = "done"
  /\ UNCHANGED <<srvRepos, srvFaulty, userP, reposP, publicRepos,
                 repoDataPromises, slept>>
  /\ UNCHANGED outsideRun

\* the inter-batch delay elapsed: i += batchSize and the next batch is awaited
DelayElapsed ==
  /\ rpc = "delay"
  /\ slept' = slept + BatchDelayMs
  /\ bi' = bi + batchSize
  /\ rpc' = "awaitBatch"
  /\ UNCHANGED <<srvRepos, srvFaulty, data, userP, reposP, publicRepos,
                 repoDataPromises, allRepoData>>
  /\ UNCHANGED outsideRun

RunStep ==
  \/ RunStart
  \/ UserSettles
  \/ ReposSettle
  \/ RunInitialFailed
  \/ RunGotRepos
  \/ RepoSettles
  \/ BatchResolved
  \/ DelayElapsed

(***************************************************************************)
(* useGithubData rendered with changing handles: the effect of            *)
(* useGithubData.ts:50-201 runs fetchAllData at every render with another  *)
(* handle (clearing user and repos at a render without one) and returns no *)
(* cleanup, so the earlier runs go on beside the latest one, and all write *)
(* the one React state `data`.  A run appears by its three state updates;  *)
(* its repositories are fetched in one batch.                              *)
(***************************************************************************)
Handles == {"alice", "bob"}
HandleRepoNames == [alice |-> <<"alice/r1", "alice/r2">>,
                    bob |-> <<"bob/r1", "bob/r2">>]

\* the repository lists of at most n repositories of a handle
HandleRepoLists(handle, n) ==
  UNION { { [i \in 1..k |-> GitHubRepo(HandleRepoNames[handle][i], i \in P)] :
              P \in SUBSET (1..k) } : k \in 0..n }

\* the variables of the single run of SpecRun, and the other subsystems
singleRunVars == <<srvRepos, srvFaulty, rpc, userP, reposP, publicRepos,
                   repoDataPromises, bi, allRepoData, slept>>
outsideHook == <<fetchVars, apiVars, busVars, calcVars, todoVars, chatVars>>

\* the hook before its first render with a handle
SwitchIdle ==
  /\ username = NullValue
  /\ userRepos = [h \in Handles |-> <<>>]
  /\ runs = <<>>

\* a call of fetchAllData for handle at position pc
Run(handle, pc) == [handle |-> handle, pc |-> pc]

\* a render with another handle: the effect calls fetchAllData(), which
\* runs up to its first await
UsernameChanges ==
  \E handle \in Handles :
    /\ username # handle /\ Len(runs) < MaxSwitchRuns
    /\ username' = handle
    /\ data' = [data EXCEPT !.loading = TRUE, !.error = NullValue]
    /\ runs' = Append(runs, Run(handle, "fetching"))
    /\ UNCHANGED <<userRepos, singleRunVars, outsideHook>>

\* a render without a handle: if (!username) { setData({ user: null,
\* repos: [], loading: false }); return; }
UsernameCleared ==
  /\ username # NullValue
  /\ username' = NullValue
  /\ data' = [data EXCEPT !.user = NullValue, !.repos = <<>>,
                          !.loading = FALSE]
  /\ UNCHANGED <<userRepos, runs, singleRunVars, outsideHook>>

\* Promise.all([fetchUser, fetchUserRepos]) of a run rejected: its catch
SwitchFetchFailed ==
  \E k \in 1..Len(runs), message \in FetchErrors :
    /\ runs[k].pc = "fetching"
    /\ data' = [data EXCEPT !.error = message, !.loading = FALSE]
    /\ runs' = [runs EXCEPT ![k].pc = "failed"]
    /\ UNCHANGED <<username, userRepos, singleRunVars, outsideHook>>

\* it resolved: setData({ user, repos }) and the detail fetches are started
\* (with no public repository the statistics are computed at once)
SwitchGotRepos ==
  \E k \in 1..Len(runs) :
    /\ runs[k].pc = "fetching"
    /\ LET public == filterPublic(userRepos[runs[k].handle])
           d == [data EXCEPT !.user = runs[k].handle, !.repos = public]
       IN IF Len(public) > 0
            THEN /\ data' = d
                 /\ runs' = [runs EXCEPT ![k].pc = "details"]
            ELSE /\ data' = Computed(d, <<>>)
                 /\ runs' = [runs EXCEPT ![k].pc = "done"]
    /\ UNCHANGED <<username, userRepos, singleRunVars, outsideHook>>

\* the batch of a run resolved: the statistics and the last setData
SwitchComputed ==
  \E k \in 1..Len(runs) :
    /\ runs[k].pc = "details"
    /\ LET public == filterPublic(userRepos[runs[k].handle])
           all == [i \in 1..Len(public) |-> repoData(public[i], AllOk)]
       IN data' = Computed(data, all)
    /\ runs' = [runs EXCEPT ![k].pc = "done"]
    /\ UNCHANGED <<username, userRepos, singleRunVars, outsideHook>>

(***************************************************************************)
(* calculateGlobalBusFactor (analytics/busFactor.ts).                      *)
(***************************************************************************)
RECURSIVE GCD(_, _)
GCD(a, b) == IF b = 0 THEN a ELSE GCD(b, a % b)

\* the same number in lowest terms
RatNorm(x) ==
  LET g == GCD(IF x.num < 0 THEN 0 - x.num ELSE x.num, x.den)
  IN IF g = 0 THEN x ELSE Rat(x.num \div g, x.den \div g)

\* x / n for a positive integer n
RatDiv(x, n) == RatNorm(Rat(x.num, x.den * n))

\* repoBusFactors.reduce((sum, bf) => sum + bf.topContributorRatio, 0)
RECURSIVE SumTopContributorRatio(_)
SumTopContributorRatio(bfs) ==
  IF bfs = <<>> THEN RatInt(0)
  ELSE RatNorm(RatAdd(bfs[1].topContributorRatio,
                      SumTopContributorRatio(Tail(bfs))))

\* repoBusFactors.reduce((sum, bf) => sum + bf.score, 0)
RECURSIVE SumBusScore(_)
SumBusScore(bfs) ==
  IF bfs = <<>> THEN RatInt(0)
  ELSE RatNorm(RatAdd(bfs[1].score, SumBusScore(Tail(bfs))))

\* repoBusFactors.reduce((sum, bf) => sum + bf.totalContributors, 0)
RECURSIVE SumTotalContributors(_)
SumTotalContributors(bfs) ==
  IF bfs = <<>> THEN 0
  ELSE bfs[1].totalContributors + SumTotalContributors(Tail(bfs))

\* repoBusFactors.filter((bf) => bf.risk === risk).length
CountRisk(bfs, risk) == Cardinality({i \in 1..Len(bfs) : bfs[i].risk = risk})

\* a rule that also answers MEDIUM when exactly half the repositories are
globalRiskOf_Inclusive(high, medium, n) ==
  IF 10 * high > 3 * n THEN "HIGH"
  ELSE IF high > 0 \/ 2 * medium >= n THEN "MEDIUM"
  ELSE "LOW"

\* highRiskRepos.length > repoBusFactors.length * 0.3, ... * 0.5 (the
\* doubles n * 0.3 and n * 0.5 compare with a count as 3n/10 and n/2 do for
\* every n below 60)
globalRiskOf(high, medium, n) ==
  IF 10 * high > 3 * n THEN "HIGH"
  ELSE IF high > 0 \/ 2 * medium > n THEN "MEDIUM"
  ELSE "LOW"

calculateGlobalBusFactor(repoBusFactors) ==
  IF Len(repoBusFactors) = 0
    THEN BusFactorResult("LOW", RatInt(0), "", 0, RatInt(100))
  ELSE
    LET n == Len(repoBusFactors)
        avgTopContributorRatio ==
          RatDiv(SumTopContributorRatio(repoBusFactors), n)
        avgScore == RatDiv(SumBusScore(repoBusFactors), n)
        risk == globalRiskOf(CountRisk(repoBusFactors, "HIGH"),
                             CountRisk(repoBusFactors, "MEDIUM"), n)
    IN BusFactorResult(risk, avgTopContributorRatio, "",
                       SumTotalContributors(repoBusFactors), avgScore)

\* the per-repository results the inputs are drawn from: no contributor,
\* no contribution, a single contributor, and shares of 0.7, 0.6 and 0.4
SampleBusFactors ==
  { calculateBusFactor(<<>>),
    calculateBusFactor(<<Contributor("alice", 0)>>),
    calculateBusFactor(<<Contributor("alice", 70)>>),
    calculateBusFactor(<<Contributor("alice", 70), Contributor("bob", 30)>>),
    calculateBusFactor(<<Contributor("alice", 60), Contributor("bob", 40)>>),
    calculateBusFactor(<<Contributor("alice", 40), Contributor("bob", 30),
                         Contributor("carol", 30)>>) }

\* all sequences of at most n elements of S
SeqsUpTo(S, n) == UNION { [1..k -> S] : k \in 0..n }

\* f(args) is called
CalcCalled(fn, args) ==
  cfn = fn /\ cpc = "called" /\ cargs = args /\ cres = NoResult

\* f(args) returns v
CalcReturn(fn, v) ==
  /\ cfn = fn /\ cpc = "called"
  /\ cres' = v
  /\ cpc' = "done"
  /\ UNCHANGED <<cfn, cargs>>
  /\ UNCHANGED outsideCalc

CalcDone(fn) == cfn = fn /\ cpc = "done"

\* const globalBusFactor = calculateGlobalBusFactor(repoBusFactors)
CalcGlobalBusFactor ==
  CalcReturn("calculateGlobalBusFactor",
             calculateGlobalBusFactor(cargs.repoBusFactors))

(***************************************************************************)
(* The inputs of calculateHealthScore: issue lists by the number of open,  *)
(* closed and pull-request-flagged entries, pull request lists by the      *)
(* number of entries of each kind.                                         *)
(***************************************************************************)
\* k copies of x
Copies(x, k) == [i \in 1..k |-> x]

IssueLists ==
  { Copies(Issue("open", FALSE), o) \o Copies(Issue("closed", FALSE), c)
      \o Copies(Issue("closed", TRUE), f) :
      o \in 0..MaxIssues, c \in 0..MaxIssues, f \in 0..1 }

\* a pull request created at hour 100: not merged, or merged after h hours
OpenPull == PullRequest(FALSE, 100, NullTime)
MergedAfter(h) == PullRequest(TRUE, 100, 100 + h)
\* merged, but with no merged_at
UntimedPull == PullRequest(TRUE, 100, NullTime)

\* hours to merge of the sample pull requests
MergeHours == <<0, 20, 48, 100>>

PullLists ==
  { Copies(OpenPull, k[1]) \o Copies(MergedAfter(MergeHours[1]), k[2])
      \o Copies(MergedAfter(MergeHours[2]), k[3])
      \o Copies(MergedAfter(MergeHours[3]), k[4])
      \o Copies(MergedAfter(MergeHours[4]), k[5])
      \o Copies(UntimedPull, k[6]) :
      k \in {c \in [1..6 -> 0..MaxPulls] :
               c[1] + c[2] + c[3] + c[4] + c[5] + c[6] <= MaxPulls} }

\* repositories whose sub-scores add up to a number halfway between two
\* integers: 26.67 + 0.83, 6.67 + 0.83 and 4.17 + 35.33 + 20
LargeRepositories ==
  { [issues |-> Copies(Issue("open", FALSE), 1)
                  \o Copies(Issue("closed", FALSE), 2),
     pullRequests |-> Copies(OpenPull, 47) \o <<MergedAfter(100)>>],
    [issues |-> Copies(Issue("open", FALSE), 5)
                  \o Copies(Issue("closed", FALSE), 1),
     pullRequests |-> Copies(OpenPull, 47) \o <<MergedAfter(100)>>],
    [issues |-> Copies(Issue("open", FALSE), 43)
                  \o Copies(Issue("closed", FALSE), 5),
     pullRequests |-> Copies(OpenPull, 7) \o Copies(MergedAfter(20), 53)] }

\* const hs = calculateHealthScore(issues, pullRequests)
CalcHealthScore ==
  CalcReturn("calculateHealthScore",
             calculateHealthScore(cargs.issues, cargs.pullRequests))

(***************************************************************************)
(* calculateAverageHealthScore (analytics/healthScore.ts).                 *)
(***************************************************************************)
\* the sums of the reduce calls over healthScores: whole numbers
RECURSIVE HealthTotals(_)
HealthTotals(hss) ==
  IF hss = <<>>
    THEN [score |-> 0, issueResolution |-> 0, prMergeRate |-> 0,
          prSpeed |-> 0, totalIssues |-> 0, closedIssues |-> 0,
          totalPRs |-> 0, mergedPRs |-> 0]
  ELSE
    LET hs == hss[Len(hss)]
        acc == HealthTotals(SubSeq(hss, 1, Len(hss) - 1))
    IN [score |-> acc.score + hs.score,
        issueResolution |-> acc.issueResolution + hs.breakdown.issueResolution,
        prMergeRate |-> acc.prMergeRate + hs.breakdown.prMergeRate,
        prSpeed |-> acc.prSpeed + hs.breakdown.prSpeed,
        totalIssues |-> acc.totalIssues + hs.metrics.totalIssues,
        closedIssues |-> acc.closedIssues + hs.metrics.closedIssues,
        totalPRs |-> acc.totalPRs + hs.metrics.totalPRs,
        mergedPRs |-> acc.mergedPRs + hs.metrics.mergedPRs]

\* totalMetrics.avgMergeTimeHours: acc.avgMergeTimeHours +
\* hs.metrics.avgMergeTimeHours from 0, a sum of doubles taken left to right
RECURSIVE SumMergeTimes(_)
SumMergeTimes(hss) ==
  IF hss = <<>> THEN DoubleZero
  ELSE DoublePlus[SumMergeTimes(SubSeq(hss, 1, Len(hss) - 1)),
                  DoubleOfRat(hss[Len(hss)].metrics.avgMergeTimeHours)]

\* a sum of avgMergeTimeHours * mergedPRs, which the code does not form
RECURSIVE HealthTotals_Weighted(_)
HealthTotals_Weighted(hss) ==
  IF hss = <<>> THEN DoubleZero
  ELSE DoublePlus[HealthTotals_Weighted(SubSeq(hss, 1, Len(hss) - 1)),
                  DoubleTimes[DoubleOfRat(hss[Len(hss)].metrics.avgMergeTimeHours),
                              hss[Len(hss)].metrics.mergedPRs]]

\* a mean weighted by the number of merged pull requests
averageOfAverages_Weighted(hss) ==
  IF HealthTotals(hss).mergedPRs = 0 THEN DoubleZero
  ELSE DoubleOver[HealthTotals_Weighted(hss), HealthTotals(hss).mergedPRs]

\* totalMetrics.avgMergeTimeHours / healthScores.length
averageOfAverages(hss) ==
  DoubleOver[SumMergeTimes(hss), Len(hss)]

\* sum / healthScores.length for a sum of whole numbers
averageOf(sum, n) == DoubleOver[DoubleOf[sum], n]

calculateAverageHealthScore(healthScores) ==
  IF Len(healthScores) = 0
    THEN [score |-> 0, grade |-> "POOR",
          breakdown |-> [issueResolution |-> 0, prMergeRate |-> 0,
                         prSpeed |-> 0],
          metrics |-> [totalIssues |-> 0, closedIssues |-> 0, totalPRs |-> 0,
                       mergedPRs |-> 0, avgMergeTimeHours |-> RatInt(0)]]
  ELSE
    LET n == Len(healthScores)
        total == HealthTotals(healthScores)
        avgScore == averageOf(total.score, n)
    IN [score |-> DoubleRound(avgScore),
        grade |-> gradeOf(avgScore),
        breakdown |->
          [issueResolution |-> DoubleRound(averageOf(total.issueResolution, n)),
           prMergeRate |-> DoubleRound(averageOf(total.prMergeRate, n)),
           prSpeed |-> DoubleRound(averageOf(total.prSpeed, n))],
        metrics |->
          [totalIssues |-> total.totalIssues,
           closedIssues |-> total.closedIssues,
           totalPRs |-> total.totalPRs,
           mergedPRs |-> total.mergedPRs,
           avgMergeTimeHours |->
             Tenths(DoubleRound(DoubleTimes[averageOfAverages(healthScores),
                                            10]))]]

\* the issues and pull requests of a repository
Repository(issues, prs) == [issues |-> issues, pullRequests |-> prs]

\* the repositories the inputs are drawn from: scores 80, 79, 0,
\* 27, 60, 59, 100, 84, 40 and 40, merge times 0, 20, 29.3, 100, 89.6 and
\* 65.3 hours
SampleRepositories ==
  { Repository(<<>>,
               <<>>),
    Repository(Copies(Issue("open", FALSE), 1) \o Copies(Issue("closed", FALSE), 4),
               <<OpenPull, MergedAfter(20), MergedAfter(20)>>),
    Repository(<<Issue("open", FALSE)>>,
               <<OpenPull>>),
    Repository(Copies(Issue("open", FALSE), 2) \o Copies(Issue("closed", FALSE), 1),
               <<OpenPull, OpenPull, MergedAfter(100)>>),
    Repository(<<Issue("open", FALSE), Issue("closed", FALSE)>>,
               <<>>),
    Repository(Copies(Issue("open", FALSE), 1) \o Copies(Issue("closed", FALSE), 4),
               <<OpenPull, MergedAfter(100), MergedAfter(100)>>),
    Repository(<<>>,
               <<MergedAfter(20), MergedAfter(20), MergedAfter(48)>>),
    Repository(Copies(Issue("open", FALSE), 2) \o Copies(Issue("closed", FALSE), 8),
               <<OpenPull>> \o Copies(MergedAfter(20), 4)),
    Repository(<<>>, <<MergedAfter(48)>> \o Copies(MergedAfter(100), 4)),
    Repository(<<>>, <<MergedAfter(48), MergedAfter(48), MergedAfter(100)>>) }

\* their results
SampleHealthScores ==
  {calculateHealthScore(r.issues, r.pullRequests) : r \in SampleRepositories}

\* const globalHealthScore = calculateAverageHealthScore(healthScores)
CalcAverageHealthScore ==
  CalcReturn("calculateAverageHealthScore",
             calculateAverageHealthScore(cargs.healthScores))

(***************************************************************************)
(* The inputs of calculateActivityScore: weekly series made of two runs of *)
(* equal weeks, weeks numbered from 1.                                     *)
(***************************************************************************)
\* commits of one week
WeekTotals == {0, 1, 40, 400, 100000}

ActivitySeries(v1, c1, v2, c2) ==
  [i \in 1..(c1 + c2) |-> CommitActivity(i, IF i <= c1 THEN v1 ELSE v2)]

ActivityInputs(maxRun) ==
  { ActivitySeries(v1, c1, v2, c2) :
      v1 \in WeekTotals, c1 \in 0..maxRun, v2 \in WeekTotals, c2 \in 0..maxRun }

\* a series whose average, 477787 / 9, lies less than a thousandth above
\* the bound of the score 95
LargeActivities == {ActivitySeries(53087, 8, 53091, 1)}

\* const activity = calculateActivityScore(commitActivity)
CalcActivityScore ==
  CalcReturn("calculateActivityScore",
             calculateActivityScore(cargs.activities))

(***************************************************************************)
(* calculateStressScore (components/stress-analyzer.tsx).  A string is the *)
(* sequence of its characters.                                             *)
(***************************************************************************)
STRESS_KEYWORDS ==
  { <<"f", "i", "x">>,
    <<"h", "o", "t", "f", "i", "x">>,
    <<"u", "r", "g", "e", "n", "t">>,
    <<"a", "s", "a", "p">>,
    <<"q", "u", "i", "c", "k">>,
    <<"t", "e", "m", "p">>,
    <<"h", "a", "c", "k">>,
    <<"w", "o", "r", "k", "a", "r", "o", "u", "n", "d">>,
    <<"e", "m", "e", "r", "g", "e", "n", "c", "y">>,
    <<"c", "r", "i", "t", "i", "c", "a", "l">>,
    <<"b", "r", "o", "k", "e", "n">>,
    <<"c", "r", "a", "s", "h">>,
    <<"p", "a", "n", "i", "c">>,
    <<"d", "e", "s", "p", "e", "r", "a", "t", "e">>,
    <<"r", "u", "s", "h", "e", "d">>,
    <<"l", "a", "s", "t", " ", "m", "i", "n", "u", "t", "e">> }

UpperCase ==
  <<"A", "B", "C", "D", "E", "F", "G", "H",
     "I", "J", "K", "L", "M", "N", "O", "P", "Q", "R", "S", "T", "U", "V", "W", "X", "Y", "Z">>
LowerCase ==
  <<"a", "b", "c", "d", "e", "f", "g", "h",
     "i", "j", "k", "l", "m", "n", "o", "p", "q", "r", "s", "t", "u", "v", "w", "x", "y", "z">>

\* the lower-case letter of every upper-case letter
CaseMap ==
  [c \in {UpperCase[k] : k \in 1..Len(UpperCase)} |->
     LowerCase[CHOOSE k \in 1..Len(UpperCase) : UpperCase[k] = c]]

\* String.prototype.toLowerCase on the letters A-Z
toLowerCase(str) ==
  [i \in 1..Len(str) |->
     IF str[i] \in DOMAIN CaseMap THEN CaseMap[str[i]] ELSE str[i]]

\* String.prototype.includes
includes(str, search) ==
  \E i \in 0..(Len(str) - Len(search)) :
    SubSeq(str, i + 1, i + Len(search)) = search

\* STRESS_KEYWORDS.some((keyword) => message.includes(keyword))
hasMessageStress(commitMessage) ==
  LET message == toLowerCase(commitMessage)
  IN \E keyword \in STRESS_KEYWORDS : includes(message, keyword)

\* a night that starts after 22:59
isNightTime_Late(hour) == hour > 22 \/ hour < 5

\* commit.hour >= 22 || commit.hour < 5
isNightTime(hour) == hour >= 22 \/ hour < 5

\* CommitData, the fields the score depends on
CommitData(message, filesCount, hour, stressScore) ==
  [message |-> message, filesCount |-> filesCount, hour |-> hour,
   stressScore |-> stressScore]

\* commits.reduce((sum, c) => sum + c.filesCount, 0)
RECURSIVE SumFilesCount(_)
SumFilesCount(commits) ==
  IF commits = <<>> THEN 0
  ELSE commits[1].filesCount + SumFilesCount(Tail(commits))

\* commits.reduce((sum, c) => sum + c.filesCount, 0) / commits.length
avgFilesOf(commits) ==
  IF Len(commits) = 0 THEN NaN
  ELSE DoubleOver[DoubleOf[SumFilesCount(commits)], Len(commits)]

\* avgFiles * 2
Twice(avgFiles) == IF isNaN(avgFiles) THEN NaN ELSE DoubleTimes[avgFiles, 2]

\* if (hasMessageStress) stressScore += 0.4
withMessageStress(commit) ==
  IF hasMessageStress(commit.message) THEN DoubleOfRat(Rat(4, 10))
  ELSE DoubleZero

\* if (commit.filesCount > avgFiles * 2) stressScore += 0.35
withFileSpike(stressScore, commit, avgFiles) ==
  IF NumGt(DoubleOf[commit.filesCount], Twice(avgFiles))
    THEN DoublePlus[stressScore, DoubleOfRat(Rat(35, 100))]
    ELSE stressScore

\* if (isNightTime && commit.filesCount > avgFiles) stressScore += 0.25
withNightAggression(stressScore, commit, avgFiles) ==
  IF isNightTime(commit.hour) /\ NumGt(DoubleOf[commit.filesCount], avgFiles)
    THEN DoublePlus[stressScore, DoubleOfRat(Rat(25, 100))]
    ELSE stressScore

\* the score of one commit against the mean avgFiles
stressScoreOf(commit, avgFiles) ==
  DoubleMin[withNightAggression(withFileSpike(withMessageStress(commit),
                                              commit, avgFiles),
                                commit, avgFiles),
            DoubleOf[1]]

\* commits.map((commit) => ({ ...commit, stressScore })) against avgFiles
withStressScores(commits, avgFiles) ==
  [i \in 1..Len(commits) |->
     [commits[i] EXCEPT !.stressScore = stressScoreOf(commits[i], avgFiles)]]

calculateStressScore(commits) ==
  IF Len(commits) = 0 THEN commits
  ELSE withStressScores(commits, avgFilesOf(commits))

\* the commits the inputs are drawn from, as fetchUserCommits builds them
\* (stressScore: 0)
SampleMessages ==
  { <<"u", "r", "g", "e", "n", "t", " ", "h", "o", "t", "f", "i", "x">>,
    <<"F", "i", "x", " ", "t", "y", "p", "o">>,
    <<"a", "d", "d", " ", "t", "e", "s", "t", "s">> }
SampleFilesCounts == {0, 5, 15}
SampleHours == {2, 5, 22}

SampleCommits ==
  { CommitData(m, f, h, DoubleZero) :
      m \in SampleMessages, f \in SampleFilesCounts, h \in SampleHours }

\* the other commits of the sampled set: day-time commits without keyword
BackgroundCommits ==
  { CommitData(<<"a", "d", "d", " ", "t", "e", "s", "t", "s">>, f, 5,
               DoubleZero) : f \in SampleFilesCounts }

\* the sampled sets of at most n commits: any sample commit followed by
\* background commits
StressInputs(n) ==
  {<<>>} \cup { <<c>> \o rest : c \in SampleCommits,
                               rest \in SeqsUpTo(BackgroundCommits, n - 1) }

\* const commitsWithStress = calculateStressScore(commits)
CalcStressScore ==
  CalcReturn("calculateStressScore", calculateStressScore(cargs.commits))

(***************************************************************************)
(* analyzeUserStress (components/stress-analyzer.tsx), in the double       *)
(* arithmetic of the code; NaN is the value of 0 / 0.  The date of a       *)
(* commit is the number of the week it falls in (weekKey).                 *)
(***************************************************************************)
\* a commit of CommitData with the week of its date
DatedCommit(commit, week) ==
  [message |-> commit.message, filesCount |-> commit.filesCount,
   hour |-> commit.hour, stressScore |-> commit.stressScore, week |-> week]

\* commits.reduce((sum, c) => sum + c.stressScore, 0)
RECURSIVE SumStressScore(_)
SumStressScore(commits) ==
  IF commits = <<>> THEN DoubleZero
  ELSE DoublePlus[SumStressScore(SubSeq(commits, 1, Len(commits) - 1)),
                  commits[Len(commits)].stressScore]

\* commits.filter((c) => c.week = week)
RECURSIVE commitsOfWeek(_, _)
commitsOfWeek(commits, week) ==
  IF commits = <<>> THEN <<>>
  ELSE (IF commits[1].week = week THEN <<commits[1]>> ELSE <<>>)
         \o commitsOfWeek(Tail(commits), week)

\* group.length > 0 ? group.reduce(...) / group.length : 0
averageStressOf(group) ==
  IF Len(group) > 0 THEN DoubleOver[SumStressScore(group), Len(group)]
  ELSE DoubleZero

\* the entry of weeklyStress made from weeklyData[week], which holds the
\* sum and the count of the commits of the week in the order of the list
weeklyEntryOf(inWeek, week) ==
  [week |-> week,
   averageStress |-> averageStressOf(inWeek),
   commitCount |-> Len(inWeek)]

weeklyEntry(commits, week) == weeklyEntryOf(commitsOfWeek(commits, week), week)

\* the keys of weeklyData in ascending order
RECURSIVE ascending(_)
ascending(weeks) ==
  IF weeks = {} THEN <<>>
  ELSE LET first == CHOOSE w \in weeks : \A v \in weeks : w <= v
       IN <<first>> \o ascending(weeks \ {first})

\* Object.entries(weeklyData).map(...).sort(...).slice(-8)
weeklyStressOf(commits) ==
  LET keys == ascending({commits[i].week : i \in 1..Len(commits)})
  IN LastN([k \in 1..Len(keys) |-> weeklyEntry(commits, keys[k])], 8)

\* weeklyStress.slice(-4, -2)
previousWeeksOf(weeklyStress) ==
  LET from == IF Len(weeklyStress) > 4 THEN Len(weeklyStress) - 4 ELSE 0
      to == IF Len(weeklyStress) > 2 THEN Len(weeklyStress) - 2 ELSE 0
  IN SubSeq(weeklyStress, from + 1, to)

\* weeks.reduce((sum, w) => sum + w.averageStress, 0) / weeks.length
RECURSIVE SumAverageStress(_)
SumAverageStress(weeks) ==
  IF weeks = <<>> THEN DoubleZero
  ELSE DoublePlus[SumAverageStress(SubSeq(weeks, 1, Len(weeks) - 1)),
                  weeks[Len(weeks)].averageStress]

averageOfWeeks(weeks) ==
  IF Len(weeks) = 0 THEN NaN
  ELSE DoubleOver[SumAverageStress(weeks), Len(weeks)]

\* ((recentAvg - previousAvg) / previousAvg) * 100 for previousAvg > 0
PercentChange(diff, previousAvg) ==
  Signed(diff.neg /\ diff.abs # DoubleZero,
         DoubleTimes[DoubleDivide[diff.abs, previousAvg], 100])

\* previousAvg > 0 ? ((recentAvg - previousAvg) / previousAvg) * 100 : 0
stressTrendFrom(recentAvg, previousAvg) ==
  IF NumGt(previousAvg, DoubleZero)
    THEN PercentChange(DoubleMinus(recentAvg, previousAvg), previousAvg)
    ELSE Signed(FALSE, DoubleZero)

\* previousWeeks.length > 0 ? (average of previousWeeks) : recentAvg
previousAvgOf(previousWeeks, recentAvg) ==
  IF Len(previousWeeks) > 0 THEN averageOfWeeks(previousWeeks) ELSE recentAvg

stressTrendOf(weeklyStress) ==
  stressTrendFrom(averageOfWeeks(LastN(weeklyStress, 2)),
                  previousAvgOf(previousWeeksOf(weeklyStress),
                                averageOfWeeks(LastN(weeklyStress, 2))))

\* [...commits].sort((a, b) => b.stressScore - a.stressScore), a stable sort
RECURSIVE insertByStress(_, _)
insertByStress(sorted, c) ==
  IF sorted = <<>> THEN <<c>>
  ELSE IF ~DoubleLt[sorted[Len(sorted)].stressScore, c.stressScore]
         THEN Append(sorted, c)
  ELSE Append(insertByStress(SubSeq(sorted, 1, Len(sorted) - 1), c),
              sorted[Len(sorted)])

RECURSIVE sortByStress(_)
sortByStress(commits) ==
  IF commits = <<>> THEN <<>>
  ELSE insertByStress(sortByStress(SubSeq(commits, 1, Len(commits) - 1)),
                      commits[Len(commits)])

\* .slice(0, n)
FirstN(seq, n) == IF Len(seq) <= n THEN seq ELSE SubSeq(seq, 1, n)

\* commits.filter((c) => c.hour >= 22 || c.hour < 5) and its complement
RECURSIVE commitsAtNight(_, _)
commitsAtNight(commits, night) ==
  IF commits = <<>> THEN <<>>
  ELSE (IF isNightTime(commits[1].hour) = night THEN <<commits[1]>> ELSE <<>>)
         \o commitsAtNight(Tail(commits), night)

\* (count / totalCommits) * 100; count is 0 where totalCommits is 0
percentOf(count, totalCommits) ==
  IF totalCommits = 0 THEN NaN
  ELSE DoubleTimes[DoubleOver[DoubleOf[count], totalCommits], 100]

\* commitsWithStress.filter((c) => c.filesCount > avgFiles * 2).length
fileSpikeCountOf(commits, avgFiles) ==
  Cardinality({i \in 1..Len(commits) :
    NumGt(DoubleOf[commits[i].filesCount], Twice(avgFiles))})

\* commitsWithStress.filter((c) => (c.hour >= 22 || c.hour < 5)
\*                                  && c.filesCount > avgFiles).length
nightAggressiveCountOf(commits, avgFiles) ==
  Cardinality({i \in 1..Len(commits) :
    /\ isNightTime(commits[i].hour)
    /\ NumGt(DoubleOf[commits[i].filesCount], avgFiles)})

\* commitsWithStress.filter((c) => STRESS_KEYWORDS.some(...)).length
messageStressCountOf(commits) ==
  Cardinality({i \in 1..Len(commits) : hasMessageStress(commits[i].message)})

\* lines 171-259 of analyzeUserStress, on the commits with their scores
analysisOf(commitsWithStress, weeklyStress, totalCommits) ==
  [totalCommits |-> totalCommits,
   averageStressScore |-> averageStressOf(commitsWithStress),
   stressTrend |-> stressTrendOf(weeklyStress),
   mostStressedCommits |-> FirstN(sortByStress(commitsWithStress), 5),
   weeklyStress |-> weeklyStress,
   stressByTime |->
     [night |-> averageStressOf(commitsAtNight(commitsWithStress, TRUE)),
      day |-> averageStressOf(commitsAtNight(commitsWithStress, FALSE))],
   stressByType |->
     [messageStress |->
        percentOf(messageStressCountOf(commitsWithStress), totalCommits),
      fileSpike |->
        percentOf(fileSpikeCountOf(commitsWithStress,
                                   avgFilesOf(commitsWithStress)),
                  totalCommits),
      nightAggressive |->
        percentOf(nightAggressiveCountOf(commitsWithStress,
                                         avgFilesOf(commitsWithStress)),
                  totalCommits)]]

analyzeWithStress(commitsWithStress) ==
  analysisOf(commitsWithStress, weeklyStressOf(commitsWithStress),
             Len(commitsWithStress))

analyzeUserStress(commits) == analyzeWithStress(calculateStressScore(commits))

\* the weeks the sampled commits fall in
SampleCommitWeeks == {1, 2, 3}

\* what fetchUserCommits resolves with: the sampled sets of at most n
\* commits, each commit in any of the sampled weeks
AnalyzeInputs(n) ==
  UNION { { [i \in 1..Len(cs) |-> DatedCommit(cs[i], ws[i])] :
              ws \in [1..Len(cs) -> SampleCommitWeeks] } : cs \in StressInputs(n) }

\* five commits whose week averages are 0.6 / 3, 0 and 0.4: the doubles give
\* a stressTrend above 0 where the fractions 1/5, 0 and 2/5 give 0
TrendCommits ==
  LET plain == CommitData(<<"a", "d", "d", " ", "t", "e", "s", "t", "s">>,
                          0, 5, DoubleZero)
  IN << DatedCommit(plain, 1), DatedCommit(plain, 1),
        DatedCommit([plain EXCEPT !.filesCount = 1, !.hour = 2], 1),
        DatedCommit(plain, 2),
        DatedCommit([plain EXCEPT !.message =
                       <<"F", "i", "x", " ", "t", "y", "p", "o">>], 3) >>

\* const analysis = await analyzeUserStress(username)
CalcAnalyzeUserStress ==
  CalcReturn("analyzeUserStress", analyzeUserStress(cargs.commits))

(***************************************************************************)
(* aggregateCommitActivity (analytics/commitStats.ts).  The Map weekMap is *)
(* the sequence of its values in insertion order.                          *)
(***************************************************************************)
\* weekMap.has(week)
MapHas(weekMap, week) == \E i \in 1..Len(weekMap) : weekMap[i].week = week

\* the position of weekMap.get(week)
MapIndex(weekMap, week) ==
  CHOOSE i \in 1..Len(weekMap) : weekMap[i].week = week

\* the body of activities.forEach((activity) => ...)
addActivity(weekMap, repoName, activity) ==
  LET week == activity.week * 1000
      present ==
        IF MapHas(weekMap, week) THEN weekMap
        ELSE Append(weekMap, [week |-> week, totalCommits |-> 0,
                              repoCount |-> 0, repos |-> <<>>])
      k == MapIndex(present, week)
      repos == Append(present[k].repos,
                      [repoName |-> repoName, commits |-> activity.total])
  IN [present EXCEPT ![k] =
        [week |-> week,
         totalCommits |-> present[k].totalCommits + activity.total,
         repoCount |-> Len(repos),
         repos |-> repos]]

\* activities.forEach(...)
RECURSIVE addActivities(_, _, _)
addActivities(weekMap, repoName, activities) ==
  IF activities = <<>> THEN weekMap
  ELSE addActivities(addActivity(weekMap, repoName, activities[1]),
                     repoName, Tail(activities))

\* repoCommitData.forEach(({ repoName, activities }) => ...)
RECURSIVE addRepos(_, _)
addRepos(weekMap, repoCommitData) ==
  IF repoCommitData = <<>> THEN weekMap
  ELSE addRepos(addActivities(weekMap, repoCommitData[1].repoName,
                              repoCommitData[1].activities),
                Tail(repoCommitData))

\* a comparator that sorts the latest week first
compareWeeks_Descending(a, b) == b.week - a.week

\* (a, b) => a.week - b.week
compareWeeks(a, b) == a.week - b.week

\* Array.prototype.sort with compareWeeks (a stable sort)
RECURSIVE insertSorted(_, _)
insertSorted(sorted, x) ==
  IF sorted = <<>> THEN <<x>>
  ELSE IF compareWeeks(sorted[Len(sorted)], x) <= 0 THEN Append(sorted, x)
  ELSE Append(insertSorted(SubSeq(sorted, 1, Len(sorted) - 1), x),
              sorted[Len(sorted)])

RECURSIVE sortByWeek(_)
sortByWeek(entries) ==
  IF entries = <<>> THEN <<>>
  ELSE insertSorted(sortByWeek(SubSeq(entries, 1, Len(entries) - 1)),
                    entries[Len(entries)])

aggregateCommitActivity(repoCommitData) ==
  sortByWeek(addRepos(<<>>, repoCommitData))

\* week stamps in seconds (three consecutive weeks) and commits of a week
SampleWeeks == <<604800, 1209600, 1814400>>
SampleTotals == {0, 3}

\* the series of one repository as the statistics endpoint gives it: weeks
\* ascending, any of the sample weeks present
NoWeek == 0 - 1
RepoSeries ==
  { LET present == SelectSeq(<<1, 2, 3>>, LAMBDA w : t[w] # NoWeek)
    IN [i \in 1..Len(present) |->
          CommitActivity(SampleWeeks[present[i]], t[present[i]])] :
      t \in [1..3 -> SampleTotals \cup {NoWeek}] }

TimelineInputs(n) ==
  UNION { { [i \in 1..k |-> [repoName |-> RepoNames[i], activities |-> f[i]]] :
              f \in [1..k -> RepoSeries] } : k \in 0..n }

\* const commitTimeline = aggregateCommitActivity(commitTimelineData)
CalcAggregateCommitActivity ==
  CalcReturn("aggregateCommitActivity",
             aggregateCommitActivity(cargs.repoCommitData))

(***************************************************************************)
(* generateInsights (analytics/insights.ts).  The message of an insight is *)
(* its text with n for the number inserted into it, and that number (0     *)
(* where the text has none).                                               *)
(***************************************************************************)
\* null where a result record is expected (useGithubData.ts:18-19)
NullResult == [isNull |-> TRUE]

Insight(type, message, n) == [type |-> type, message |-> message, n |-> n]

MsgBusFactorRisk(highRiskRepos) ==
  IF highRiskRepos = 1
    THEN "n repository has a bus factor risk (over 60% commits from single contributor)"
    ELSE "n repositories have a bus factor risk (over 60% commits from single contributor)"
MsgGoodDistribution == "Good contributor distribution across repositories"
MsgMergedQuickly == "Pull requests are merged quickly (healthy workflow)"
MsgNeedsAttention ==
  "Repository health needs attention - low issue resolution and PR merge rates"
MsgMergeHours == "Average PR merge time is n hours (excellent)"
MsgMergeDays == "Average PR merge time is n days (could be improved)"
MsgInactivePercent ==
  "n% of repositories are inactive (no commits in last 3 months)"
MsgInactiveCount(inactiveRepos) ==
  IF inactiveRepos = 1 THEN "n repository is inactive"
                       ELSE "n repositories are inactive"
MsgActive == "Most repositories show active development"
MsgLoaded == "Analytics data loaded successfully"

\* if (globalBusFactor) { ... }
busInsights(busFactors, globalBusFactor) ==
  IF globalBusFactor = NullResult THEN <<>>
  ELSE
    LET highRiskRepos == CountRisk(busFactors, "HIGH")
    IN (IF highRiskRepos > 0
          THEN <<Insight("warning", MsgBusFactorRisk(highRiskRepos), highRiskRepos)>>
          ELSE <<>>)
       \o (IF globalBusFactor.risk = "LOW" /\ Len(busFactors) > 0
             THEN <<Insight("success", MsgGoodDistribution, 0)>> ELSE <<>>)

\* if (globalHealthScore) { ... }
healthInsights(globalHealthScore) ==
  IF globalHealthScore = NullResult THEN <<>>
  ELSE
    LET avgMergeTimeHours == globalHealthScore.metrics.avgMergeTimeHours
    IN (IF globalHealthScore.grade = "EXCELLENT"
          THEN <<Insight("success", MsgMergedQuickly, 0)>>
        ELSE IF globalHealthScore.grade = "POOR"
          THEN <<Insight("error", MsgNeedsAttention, 0)>>
        ELSE <<>>)
       \o (IF RatGt(avgMergeTimeHours, RatInt(0))
                /\ RatLt(avgMergeTimeHours, RatInt(48))
             THEN <<Insight("success", MsgMergeHours,
                            DoubleRound(DoubleOfRat(avgMergeTimeHours)))>>
           ELSE IF RatGt(avgMergeTimeHours, RatInt(168))
             THEN <<Insight("warning", MsgMergeDays,
                            DoubleRound(
                              DoubleOver[DoubleOfRat(avgMergeTimeHours), 24]))>>
           ELSE <<>>)

\* if (inactiveRepos > 0) { ... }
inactiveInsights(inactiveRepos, totalRepos) ==
  IF inactiveRepos > 0
    THEN LET inactivePercentage ==
               DoubleRound(DoubleTimes[DoubleOver[DoubleOf[inactiveRepos],
                                                  totalRepos], 100])
         IN IF inactivePercentage > 50
              THEN <<Insight("warning", MsgInactivePercent, inactivePercentage)>>
              ELSE <<Insight("info", MsgInactiveCount(inactiveRepos), inactiveRepos)>>
    ELSE <<>>

\* if (activeRepos > 0 && activeRepos / totalRepos > 0.7) { ... }
activeInsights(inactiveRepos, totalRepos) ==
  LET activeRepos == totalRepos - inactiveRepos
  IN IF activeRepos > 0 /\ 10 * activeRepos > 7 * totalRepos
       THEN <<Insight("success", MsgActive, 0)>> ELSE <<>>

\* a default insight that is pushed whatever the list holds
withDefault_Always(insights) ==
  Append(insights, Insight("info", MsgLoaded, 0))

\* if (insights.length === 0) { insights.push(...) }
withDefault(insights) ==
  IF Len(insights) = 0 THEN <<Insight("info", MsgLoaded, 0)>> ELSE insights

generateInsights(busFactors, globalBusFactor, healthScores, globalHealthScore, inactiveRepos, totalRepos) ==
  withDefault(busInsights(busFactors, globalBusFactor)
                \o healthInsights(globalHealthScore)
                \o inactiveInsights(inactiveRepos, totalRepos)
                \o activeInsights(inactiveRepos, totalRepos))

\* one per-repository bus factor result of each risk
RiskSamples == {bf \in SampleBusFactors : bf.totalContributors \in {0, 2}}

\* global health results: grades EXCELLENT, POOR, FAIR, merge times 0, 20,
\* 48, 100, 168 and 200 hours
SampleGlobalRepositories ==
  { Repository(<<>>,
               <<>>),
    Repository(<<Issue("open", FALSE)>>,
               <<OpenPull>>),
    Repository(Copies(Issue("open", FALSE), 2) \o Copies(Issue("closed", FALSE), 8),
               <<OpenPull>> \o Copies(MergedAfter(20), 4)),
    Repository(Copies(Issue("open", FALSE), 1) \o Copies(Issue("closed", FALSE), 4),
               <<OpenPull, MergedAfter(100), MergedAfter(100)>>),
    Repository(<<Issue("open", FALSE)>>,
               <<OpenPull, OpenPull, MergedAfter(200)>>),
    Repository(<<>>,
               <<MergedAfter(48)>>),
    Repository(<<>>,
               <<MergedAfter(168)>>) }

\* their results
SampleGlobalHealth ==
  {calculateHealthScore(r.issues, r.pullRequests) : r \in SampleGlobalRepositories}

\* the arguments app-sidebar.tsx passes: inactiveRepos.size and repos.length
InsightInputs ==
  { [busFactors |-> bfs, globalBusFactor |-> gbf, healthScores |-> <<>>,
     globalHealthScore |-> ghs, inactiveRepos |-> inactive,
     totalRepos |-> total] :
      bfs \in SeqsUpTo(RiskSamples, MaxInsightBusFactors),
      gbf \in RiskSamples \cup {NullResult},
      ghs \in SampleGlobalHealth \cup {NullResult},
      inactive \in 0..MaxTotalRepos, total \in 0..MaxTotalRepos }

CalcGenerateInsights ==
  CalcReturn("generateInsights",
             generateInsights(cargs.busFactors, cargs.globalBusFactor,
                              cargs.healthScores, cargs.globalHealthScore,
                              cargs.inactiveRepos, cargs.totalRepos))

(***************************************************************************)
(* The todo server (pure-js/todo-app/server.js).  A string is the sequence *)
(* of its characters; a JSON body is a function from the names of the      *)
(* fields it has to their values, so a field that is not in its domain is  *)
(* undefined.                                                              *)
(***************************************************************************)
Todo(id, text, completed) == [id |-> id, text |-> text, completed |-> completed]

NoBody == [none |-> TRUE]
ErrorBody(message) == [error |-> message]
ErrTodoNotFound == "Todo not found"
ErrEmptyText == "Todo text cannot be empty"

\* what a handler leaves behind: the database and the response
Reply(ts, nid, status, body) ==
  [todos |-> ts, nextId |-> nid, res |-> [status |-> status, body |-> body]]

\* String.prototype.trim over the characters of the samples
RECURSIVE trimStart(_)
trimStart(text) ==
  IF text # <<>> /\ Head(text) = " " THEN trimStart(Tail(text)) ELSE text

RECURSIVE trimEnd(_)
trimEnd(text) ==
  IF text # <<>> /\ text[Len(text)] = " "
    THEN trimEnd(SubSeq(text, 1, Len(text) - 1)) ELSE text

trim(text) == trimEnd(trimStart(text))

\* todos.findIndex((t) => t.id === id), counted from 1; 0 stands for -1
RECURSIVE findIndexFrom(_, _, _)
findIndexFrom(ts, id, i) ==
  IF i > Len(ts) THEN 0
  ELSE IF ts[i].id = id THEN i
  ELSE findIndexFrom(ts, id, i + 1)

findIndex(ts, id) == findIndexFrom(ts, id, 1)

\* todos.splice(todoIndex, 1)
splice(ts, i) == SubSeq(ts, 1, i - 1) \o SubSeq(ts, i + 1, Len(ts))

\* todos.filter((t) => !t.completed)
RECURSIVE filterActive(_)
filterActive(ts) ==
  IF ts = <<>> THEN <<>>
  ELSE IF ~Head(ts).completed THEN <<Head(ts)>> \o filterActive(Tail(ts))
  ELSE filterActive(Tail(ts))

\* app.get("/api/todos")
getTodos(ts, nid) == Reply(ts, nid, 200, ts)

\* app.get("/api/todos/:id")
getTodo(ts, nid, id) ==
  LET i == findIndex(ts, id)
  IN IF i = 0 THEN Reply(ts, nid, 404, ErrorBody(ErrTodoNotFound))
     ELSE Reply(ts, nid, 200, ts[i])

\* a create handler that numbers the new todo by the length of the list
postTodo_ByLength(ts, nid, body) ==
  IF "text" \notin DOMAIN body \/ body.text = <<>> \/ trim(body.text) = <<>>
    THEN Reply(ts, nid, 400, ErrorBody(ErrEmptyText))
    ELSE LET newTodo ==
               Todo(Len(ts) + 1, trim(body.text),
                    IF "completed" \in DOMAIN body THEN body.completed ELSE FALSE)
         IN Reply(Append(ts, newTodo), nid + 1, 201, newTodo)

\* app.post("/api/todos")
postTodo(ts, nid, body) ==
  IF "text" \notin DOMAIN body \/ body.text = <<>> \/ trim(body.text) = <<>>
    THEN Reply(ts, nid, 400, ErrorBody(ErrEmptyText))
    ELSE LET newTodo ==
               Todo(nid, trim(body.text),
                    IF "completed" \in DOMAIN body THEN body.completed ELSE FALSE)
         IN Reply(Append(ts, newTodo), nid + 1, 201, newTodo)

\* an update handler that stores `completed` before it looks at the text
putTodo_CompletedFirst(ts, nid, id, body) ==
  LET todoIndex == findIndex(ts, id)
      flagged == IF "completed" \in DOMAIN body
                   THEN [ts EXCEPT ![todoIndex].completed = body.completed]
                   ELSE ts
  IN IF todoIndex = 0 THEN Reply(ts, nid, 404, ErrorBody(ErrTodoNotFound))
     ELSE IF "text" \in DOMAIN body /\ trim(body.text) = <<>>
       THEN Reply(flagged, nid, 400, ErrorBody(ErrEmptyText))
     ELSE LET texted == IF "text" \in DOMAIN body
                          THEN [flagged EXCEPT ![todoIndex].text = trim(body.text)]
                          ELSE flagged
          IN Reply(texted, nid, 200, texted[todoIndex])

\* app.put("/api/todos/:id")
putTodo(ts, nid, id, body) ==
  LET todoIndex == findIndex(ts, id)
  IN IF todoIndex = 0 THEN Reply(ts, nid, 404, ErrorBody(ErrTodoNotFound))
     ELSE IF "text" \in DOMAIN body /\ trim(body.text) = <<>>
       THEN Reply(ts, nid, 400, ErrorBody(ErrEmptyText))
     ELSE LET texted == IF "text" \in DOMAIN body
                          THEN [ts EXCEPT ![todoIndex].text = trim(body.text)]
                          ELSE ts
              flagged == IF "completed" \in DOMAIN body
                           THEN [texted EXCEPT ![todoIndex].completed = body.completed]
                           ELSE texted
          IN Reply(flagged, nid, 200, flagged[todoIndex])

\* app.delete("/api/todos/:id")
deleteTodo(ts, nid, id) ==
  LET todoIndex == findIndex(ts, id)
  IN IF todoIndex = 0 THEN Reply(ts, nid, 404, ErrorBody(ErrTodoNotFound))
     ELSE Reply(splice(ts, todoIndex), nid, 204, NoBody)

\* a clear handler that empties the list
deleteCompleted_All(ts, nid) ==
  Reply(<<>>, nid, 200, [deleted |-> Len(ts)])

\* app.delete("/api/todos")
deleteCompleted(ts, nid) ==
  LET initialLength == Len(ts)
      kept == filterActive(ts)
  IN Reply(kept, nid, 200, [deleted |-> initialLength - Len(kept)])

\* requests, by route
Request(method, id, body) == [method |-> method, id |-> id, body |-> body]
NoId == 0
NoRequest == Request("none", NoId, NoBody)
NoTodoResponse == [status |-> 0, body |-> NoBody]

\* the route of a request
handle(req, ts, nid) ==
  CASE req.method = "GET" /\ req.id = NoId -> getTodos(ts, nid)
    [] req.method = "GET" /\ req.id # NoId -> getTodo(ts, nid, req.id)
    [] req.method = "POST" -> postTodo(ts, nid, req.body)
    [] req.method = "PUT" -> putTodo(ts, nid, req.id, req.body)
    [] req.method = "DELETE" /\ req.id # NoId -> deleteTodo(ts, nid, req.id)
    [] req.method = "DELETE" /\ req.id = NoId -> deleteCompleted(ts, nid)

\* sample texts: empty, blank, "a", " b " (trimmed to "b")
SampleTexts == {<<>>, <<" ">>, <<"a">>, <<" ", "b", " ">>}

\* JSON bodies with any of the fields text and completed
FullBodies == [text : SampleTexts, completed : BOOLEAN]
SampleBodies ==
  { [k \in fields |-> full[k]] :
      fields \in SUBSET {"text", "completed"}, full \in FullBodies }

\* the ids a request can name: those of the todos there can be and one more
SampleIds == 1..MaxTodoRequests

IdsOf(ts) == {ts[i].id : i \in 1..Len(ts)}

\* the server handles one request
Serve(req) ==
  LET out == handle(req, todos, nextId)
  IN /\ served < MaxTodoRequests
     /\ todos' = out.todos
     /\ nextId' = out.nextId
     /\ treq' = req
     /\ tres' = out.res
     /\ served' = served + 1
     /\ issued' = IF out.res.status = 201
                    THEN Append(issued, out.res.body.id) ELSE issued
     /\ removed' = removed \cup (IdsOf(todos) \ IdsOf(out.todos))

clientUnchanged == UNCHANGED <<clientTodos, sent, inbox, ops, editing>>

GetTodos ==
  /\ Serve(Request("GET", NoId, NoBody))
  /\ clientUnchanged /\ UNCHANGED outsideTodo

GetTodo ==
  /\ \E id \in SampleIds : Serve(Request("GET", id, NoBody))
  /\ clientUnchanged /\ UNCHANGED outsideTodo

PostTodo ==
  /\ \E body \in SampleBodies : Serve(Request("POST", NoId, body))
  /\ clientUnchanged /\ UNCHANGED outsideTodo

PutTodo ==
  /\ \E id \in SampleIds, body \in SampleBodies : Serve(Request("PUT", id, body))
  /\ clientUnchanged /\ UNCHANGED outsideTodo

DeleteTodo ==
  /\ \E id \in SampleIds : Serve(Request("DELETE", id, NoBody))
  /\ clientUnchanged /\ UNCHANGED outsideTodo

DeleteCompleted ==
  /\ Serve(Request("DELETE", NoId, NoBody))
  /\ clientUnchanged /\ UNCHANGED outsideTodo

\* server.js:14-15 and the page before fetchTodos
ServerStarted ==
  /\ todos = <<>> /\ nextId = 1
  /\ treq = NoRequest /\ tres = NoTodoResponse /\ served = 0
  /\ issued = <<>> /\ removed = {}

\* no input element of editTodo is on the page
NoEdit == [id |-> NoId, originalText |-> <<>>]

\* the responses on their way to the client, by the number of the request
\* they answer: none
NoResponses == [op \in {} |-> NoTodoResponse]

ClientIdle ==
  /\ clientTodos = <<>> /\ sent = {} /\ inbox = NoResponses /\ ops = 0
  /\ editing = NoEdit

TodoIdle == ServerStarted /\ ClientIdle

(***************************************************************************)
(* The todo client (pure-js/todo-app/public/app.js).  Every operation      *)
(* sends one request and goes on when its response arrives; requests of    *)
(* overlapping operations travel on connections of their own, so the       *)
(* server may handle them, and the client may receive their responses, in  *)
(* any order.  An edit is two events, editTodo and, later, saveEdit.       *)
(***************************************************************************)
\* response.ok
ResponseIsOk(res) == res.status \in 200..299

\* todos.filter(t => t.id !== id)
RECURSIVE filterOthers(_, _)
filterOthers(ts, id) ==
  IF ts = <<>> THEN <<>>
  ELSE IF Head(ts).id # id THEN <<Head(ts)>> \o filterOthers(Tail(ts), id)
  ELSE filterOthers(Tail(ts), id)

\* todos.some(t => t.completed): the clear button is shown
hasCompleted(ts) == \E i \in 1..Len(ts) : ts[i].completed

\* fetch(...) for each of reqs: the requests leave the client
ClientSendsAll(reqs) ==
  /\ ops + Len(reqs) <= MaxClientOps
  /\ ops' = ops + Len(reqs)
  /\ sent' = sent \cup {[op |-> ops + k, req |-> reqs[k]] : k \in 1..Len(reqs)}

\* a click or key press outside an edit (with an edit under way the input
\* loses the focus first: ClientEditSaves) that sends req
ClientSends(req) ==
  /\ editing = NoEdit
  /\ ClientSendsAll(<<req>>)
  /\ UNCHANGED <<todos, nextId, treq, tres, served, issued, removed,
                 clientTodos, inbox, editing>>
  /\ UNCHANGED outsideTodo

\* addTodo: createTodo(text) for a non-blank input
ClientAdd ==
  \E text \in {t \in SampleTexts : trim(t) # <<>>} :
    ClientSends(Request("POST", NoId,
                        [text |-> trim(text), completed |-> FALSE]))

\* toggleTodo(id): updateTodo(id, { completed: !todo.completed })
ClientToggle ==
  \E i \in 1..Len(clientTodos) :
    ClientSends(Request("PUT", clientTodos[i].id,
                        [completed |-> ~clientTodos[i].completed]))

\* editTodo(id) up to input.select(): originalText is read from the list and
\* the input is put on the page
ClientEditStarts ==
  \E i \in 1..Len(clientTodos) :
    /\ editing = NoEdit
    /\ editing' = [id |-> clientTodos[i].id,
                   originalText |-> clientTodos[i].text]
    /\ UNCHANGED <<todos, nextId, treq, tres, served, issued, removed,
                   clientTodos, sent, inbox, ops>>
    /\ UNCHANGED outsideTodo

\* saveEdit with text in the input, run times times: the PUT requests of
\* updateTodo(id, { text: newText }), none if (newText && newText !==
\* originalText) fails
saveEdit(text, times) ==
  IF trim(text) # <<>> /\ trim(text) # editing.originalText
    THEN [k \in 1..times |->
            Request("PUT", editing.id, [text |-> trim(text)])]
    ELSE <<>>

\* the input loses the focus, or Enter is pressed in it: saveEdit.  Its
\* input.remove() makes some DOMs send blur to the input that had the focus
\* when Enter was pressed, and saveEdit then runs a second time
ClientEditSaves ==
  \E text \in SampleTexts, times \in {1, 2} :
    /\ editing # NoEdit
    /\ ClientSendsAll(saveEdit(text, times))
    /\ editing' = NoEdit
    /\ UNCHANGED <<todos, nextId, treq, tres, served, issued, removed,
                   clientTodos, inbox>>
    /\ UNCHANGED outsideTodo

\* Escape is pressed in the input with text in it: the text of the todo is
\* shown again and input.remove() takes the input off the page, which makes
\* some DOMs send blur to it, and saveEdit then runs
ClientEditCancels ==
  \E text \in SampleTexts, times \in {0, 1} :
    /\ editing # NoEdit
    /\ ClientSendsAll(saveEdit(text, times))
    /\ editing' = NoEdit
    /\ UNCHANGED <<todos, nextId, treq, tres, served, issued, removed,
                   clientTodos, inbox>>
    /\ UNCHANGED outsideTodo

\* the delete button of a rendered todo: deleteTodo(id)
ClientDelete ==
  \E i \in 1..Len(clientTodos) :
    ClientSends(Request("DELETE", clientTodos[i].id, NoBody))

\* the clear button, shown while a todo of the list is completed
ClientClear ==
  /\ hasCompleted(clientTodos)
  /\ ClientSends(Request("DELETE", NoId, NoBody))

\* the server handles one of the requests under way
ServerHandles ==
  \E m \in sent :
    /\ Serve(m.req)
    /\ sent' = sent \ {m}
    /\ inbox' = [op \in DOMAIN inbox \cup {m.op} |->
                   IF op = m.op THEN [req |-> m.req, res |-> tres']
                   ELSE inbox[op]]
    /\ UNCHANGED <<clientTodos, ops, editing>>
    /\ UNCHANGED outsideTodo

\* what the operation does to its list once `await fetch` has resolved
received(ts, req, res) ==
  IF ~ResponseIsOk(res) THEN ts
  ELSE CASE req.method = "GET" -> res.body
         [] req.method = "POST" -> Append(ts, res.body)
         [] req.method = "PUT" ->
              LET index == findIndex(ts, req.id)
              IN IF index # 0 THEN [ts EXCEPT ![index] = res.body] ELSE ts
         [] req.method = "DELETE" /\ req.id # NoId -> filterOthers(ts, req.id)
         [] req.method = "DELETE" /\ req.id = NoId -> filterActive(ts)

\* one response arrives; after an ok response renderTodos runs, and its
\* todoList.innerHTML = '' takes the input of an edit under way off the
\* page: the edit is lost, or, in a DOM that sends blur to an element taken
\* off the page, saveEdit runs with the text of the input
ClientReceives ==
  \E op \in DOMAIN inbox :
    /\ clientTodos' = received(clientTodos, inbox[op].req, inbox[op].res)
    /\ inbox' = [o \in DOMAIN inbox \ {op} |-> inbox[o]]
    /\ IF ResponseIsOk(inbox[op].res) /\ editing # NoEdit
         THEN /\ editing' = NoEdit
              /\ \/ UNCHANGED <<sent, ops>>
                 \/ \E text \in SampleTexts :
                      ClientSendsAll(saveEdit(text, 1))
         ELSE UNCHANGED <<sent, ops, editing>>
    /\ UNCHANGED <<todos, nextId, treq, tres, served, issued, removed>>
    /\ UNCHANGED outsideTodo

\* the server holds two todos and the script of the page has run to its end:
\* fetchTodos() is at its `await fetch`, the list is empty and the add input
\* and button are on the page
FetchTodosCalled ==
  /\ \E c1, c2 \in BOOLEAN :
       todos = <<Todo(1, <<"a">>, c1), Todo(2, <<"b">>, c2)>>
  /\ nextId = 3 /\ issued = <<1, 2>> /\ removed = {}
  /\ treq = NoRequest /\ tres = NoTodoResponse
  /\ served = 0
  /\ clientTodos = <<>>
  /\ sent = {[op |-> 0, req |-> Request("GET", NoId, NoBody)]}
  /\ inbox = NoResponses /\ ops = 0 /\ editing = NoEdit

(***************************************************************************)
(* The chatbot (components/github-chatbot.tsx): handleSend and             *)
(* sendMessageSSE.  A submit event is handled to the first await of        *)
(* handleSend and React renders before the next event, so the handler of   *)
(* the next event reads the updated state.  The response of /chat appears  *)
(* by its data lines, one per read.                                        *)
(***************************************************************************)
Message(id, role, content) == [id |-> id, role |-> role, content |-> content]

\* useState<Message[]>([{ id: "1", role: "assistant", ... }])
GreetingId == 1
Greeting(u) ==
  Message(GreetingId, "assistant",
          IF u # NullValue
            THEN "Hello! I'm your GitHub AI assistant. ... Ask me anything about GitHub!"
            ELSE "Hello! I'm your GitHub AI assistant powered by MCP. ... What would you like to know?")

\* the user the page passes to the chatbot once a search has succeeded
ChatUser == "alice"

\* what the user can have typed, and the characters of it
SampleInputs == {"", " ", "hi"}
CharsOf == [text \in SampleInputs |->
              CASE text = "" -> <<>>
                [] text = " " -> <<" ">>
                [] text = "hi" -> <<"h", "i">>]

\* the errors sendMessageSSE can meet, and the error field of a data line
ErrHttp == "HTTP error! status: 500"
ErrNoBody == "No response body"
ErrNetwork == "network error"
ErrAgent == "agent failed"

NoResponseText == "No response received from the server."

\* `Sorry, I encountered an error: ${error.message}. Please make sure ...`
ErrorText(message) ==
  CASE message = ErrFailedToFetch ->
         "Sorry, I encountered an error: Failed to fetch. Please make sure the agent server is running on http://localhost:3000"
    [] message = ErrHttp ->
         "Sorry, I encountered an error: HTTP error! status: 500. Please make sure the agent server is running on http://localhost:3000"
    [] message = ErrNoBody ->
         "Sorry, I encountered an error: No response body. Please make sure the agent server is running on http://localhost:3000"
    [] message = ErrNetwork ->
         "Sorry, I encountered an error: network error. Please make sure the agent server is running on http://localhost:3000"
    [] message = ErrAgent ->
         "Sorry, I encountered an error: agent failed. Please make sure the agent server is running on http://localhost:3000"

\* a data line: JSON with the fields message and error ("" where the field
\* is absent), or text that is not JSON
DataLine(json, message, error) ==
  [json |-> json, message |-> message, error |-> error]

SampleLines ==
  { DataLine(TRUE, "Hello", ""), DataLine(TRUE, "Hello there", ""),
    DataLine(TRUE, "", ErrAgent), DataLine(TRUE, "Hello", ErrAgent),
    DataLine(TRUE, "", ""), DataLine(FALSE, "", "") }

\* prev.map((msg) => msg.id === id ? { ...msg, content } : msg)
setContent(prev, id, content) ==
  [i \in 1..Len(prev) |->
     IF prev[i].id = id THEN [prev[i] EXCEPT !.content = content] ELSE prev[i]]

\* the first render of GitHubChatbot with the prop user = u
ChatWith(u) ==
  /\ user = u
  /\ messages = <<Greeting(u)>> /\ input = "" /\ isGenerating = FALSE
  /\ chatPc = "idle" /\ fullContent = "" /\ assistantMessageId = 0
  /\ linesRead = 0
  /\ inFlight = 0 /\ submits = 0 /\ sawError = "" /\ now = GreetingId + 1

ChatIdle == ChatWith(NullValue)

\* the page renders the chatbot with another user prop (a search succeeded
\* or the handle was cleared): the effect on [user] puts the greeting for a
\* user in place of a lone first message
UserChanges ==
  /\ \E u \in {NullValue, ChatUser} : user' = u
  /\ user' # user
  /\ messages' = IF user' # NullValue /\ Len(messages) = 1
                   THEN <<Greeting(user')>>
                   ELSE messages
  /\ UNCHANGED <<input, isGenerating, chatPc, fullContent,
                 assistantMessageId, linesRead, inFlight, submits,
                 sawError, now>>
  /\ UNCHANGED outsideChat

\* onChange of the input field: setInput(e.target.value).  The form is
\* rendered with a user only ({user && <form ...>}) and the field is
\* disabled={!user || isGenerating}
TypeInput ==
  /\ user # NullValue /\ ~isGenerating
  /\ \E text \in SampleInputs : input' = text
  /\ input' # input
  /\ UNCHANGED <<user, messages, isGenerating, chatPc, fullContent,
                 assistantMessageId, linesRead, inFlight, submits,
                 sawError, now>>
  /\ UNCHANGED outsideChat

\* a guard that lets a blank submission through
rejectsSubmit_Generating(text, generating) == generating

\* if (!input.trim() || isGenerating) return;
rejectsSubmit(text, generating) == trim(CharsOf[text]) = <<>> \/ generating

\* a submit event of the form, which is on the page with a user only:
\* handleSend up to the call of fetch in sendMessageSSE; the clock may have
\* advanced by a millisecond since the last event, and again between the
\* two calls of Date.now().  The button is disabled for a blank input and
\* while a reply is generated; the handler has its own guard for a submit
\* event that arrives all the same
HandleSend ==
  /\ user # NullValue
  /\ submits < MaxSubmits
  /\ submits' = submits + 1
  /\ IF rejectsSubmit(input, isGenerating)
       THEN UNCHANGED <<messages, input, isGenerating, chatPc, fullContent,
                        assistantMessageId, linesRead, inFlight,
                        sawError, now>>
       ELSE \E first \in {now, now + 1} : \E later \in {first, first + 1} :
              /\ messages' = messages \o <<Message(first, "user", input),
                                           Message(later + 1, "assistant", "")>>
              /\ input' = ""
              /\ isGenerating' = TRUE
              /\ assistantMessageId' = later + 1
              /\ fullContent' = ""
              /\ now' = later
              /\ chatPc' = "fetching"
              /\ inFlight' = inFlight + 1
              /\ sawError' = ""
              /\ linesRead' = 0
  /\ UNCHANGED user
  /\ UNCHANGED outsideChat

\* the catch and finally blocks of handleSend
Failed(message) ==
  /\ messages' = setContent(messages, assistantMessageId, ErrorText(message))
  /\ isGenerating' = FALSE
  /\ chatPc' = "idle"
  /\ inFlight' = inFlight - 1

\* fetch rejects, the response is not ok, or it has no body
FetchFails ==
  /\ chatPc = "fetching"
  /\ \E message \in {ErrFailedToFetch, ErrHttp, ErrNoBody} : Failed(message)
  /\ UNCHANGED <<user, input, fullContent, assistantMessageId, linesRead,
                 submits, sawError, now>>
  /\ UNCHANGED outsideChat

\* the response is ok and has a body: the loop awaits reader.read()
FetchOk ==
  /\ chatPc = "fetching"
  /\ chatPc' = "reading"
  /\ UNCHANGED <<user, messages, input, isGenerating, fullContent,
                 assistantMessageId, linesRead, inFlight, submits, sawError,
                 now>>
  /\ UNCHANGED outsideChat

\* reader.read() gives one data line: JSON.parse, onChunk for a message;
\* the Error thrown for an error field is caught by the catch of the loop
ReadLine ==
  /\ chatPc = "reading" /\ linesRead < MaxEvents
  /\ \E line \in SampleLines :
        /\ IF line.json /\ line.message # ""
             THEN /\ fullContent' = line.message
                  /\ messages' = setContent(messages, assistantMessageId,
                                            line.message)
             ELSE UNCHANGED <<fullContent, messages>>
        /\ sawError' = IF line.json /\ line.error # "" THEN line.error
                       ELSE sawError
  /\ linesRead' = linesRead + 1
  /\ UNCHANGED <<user, input, isGenerating, chatPc, assistantMessageId,
                 inFlight, submits, now>>
  /\ UNCHANGED outsideChat

\* reader.read() gives done: sendMessageSSE resolves
ReadDone ==
  /\ chatPc = "reading"
  /\ messages' = IF fullContent = ""
                   THEN setContent(messages, assistantMessageId, NoResponseText)
                   ELSE messages
  /\ isGenerating' = FALSE
  /\ chatPc' = "idle"
  /\ inFlight' = inFlight - 1
  /\ UNCHANGED <<user, input, fullContent, assistantMessageId, linesRead,
                 submits, sawError, now>>
  /\ UNCHANGED outsideChat

\* reader.read() rejects: sendMessageSSE rejects
ReadFails ==
  /\ chatPc = "reading"
  /\ Failed(ErrNetwork)
  /\ UNCHANGED <<user, input, fullContent, assistantMessageId, linesRead,
                 submits, sawError, now>>
  /\ UNCHANGED outsideChat

\* the steps of a request under way
ChatStep == FetchFails \/ FetchOk \/ ReadLine \/ ReadDone \/ ReadFails

(***************************************************************************)
(* Specifications.                                                         *)
(***************************************************************************)

(***************************************************************************)
(* SpecFetch: one call of fetchWithRetry against an arbitrary server.      *)
(***************************************************************************)
InitFetch == FetchCalled /\ ApiIdle /\ BusIdle /\ RunIdle /\ CalcIdle /\ TodoIdle /\ SwitchIdle /\ ChatIdle

NextFetch == FetchStep

SpecFetch == InitFetch /\ [][NextFetch]_vars

\* the event loop runs every continuation of the call
FairSpecFetch == SpecFetch /\ WF_vars(NextFetch)

(***************************************************************************)
(* SpecApi: one call of one API function against a mock server whose list  *)
(* endpoint holds MaxPages pages of arbitrary sizes.                       *)
(***************************************************************************)
InitApi ==
  /\ FetchIdle /\ BusIdle /\ RunIdle /\ CalcIdle /\ TodoIdle /\ SwitchIdle /\ ChatIdle
  /\ srv \in [1..MaxPages -> PageSizes]
  /\ \E fn \in ApiFunctions : ApiCalled(fn)

NextApi == FetchStep \/ ApiStep

SpecApi == InitApi /\ [][NextApi]_vars

ApiDone == apc \in {"returned", "rejected"}

(***************************************************************************)
(* SpecBus: calculateBusFactor applied to every bounded contributor list.  *)
(***************************************************************************)
InitBus ==
  /\ FetchIdle /\ ApiIdle /\ RunIdle /\ CalcIdle /\ TodoIdle /\ SwitchIdle /\ ChatIdle
  /\ contributors \in ContributorLists
  /\ bpc = "ready"
  /\ bfres = NoBusFactor

NextBus == CalcBusFactor

SpecBus == InitBus /\ [][NextBus]_vars

(***************************************************************************)
(* SpecRun: one analysis run, either for a user with at most MaxRepos      *)
(* repositories whose detail fetches fail in every combination, or for a   *)
(* user with up to MaxBatchRepos repositories against healthy detail       *)
(* endpoints.                                                              *)
(***************************************************************************)
RunCalled(repos, faulty) ==
  /\ srvRepos = repos /\ srvFaulty = faulty /\ data = InitialData
  /\ rpc = "idle" /\ userP = "none" /\ reposP = "none"
  /\ publicRepos = <<>> /\ repoDataPromises = <<>> /\ bi = 0
  /\ allRepoData = <<>> /\ slept = 0

InitRun ==
  /\ FetchIdle /\ ApiIdle /\ BusIdle /\ CalcIdle /\ TodoIdle /\ SwitchIdle /\ ChatIdle
  /\ \/ \E repos \in RepoLists(MaxRepos) : RunCalled(repos, TRUE)
     \/ \E repos \in RepoLists(MaxBatchRepos) : RunCalled(repos, FALSE)

NextRun == RunStep

SpecRun == InitRun /\ [][NextRun]_vars

(***************************************************************************)
(* SpecGlobalBus: calculateGlobalBusFactor applied to every sequence of at *)
(* most MaxBusResults per-repository results.                              *)
(***************************************************************************)
InitGlobalBus ==
  /\ FetchIdle /\ ApiIdle /\ BusIdle /\ RunIdle /\ TodoIdle /\ SwitchIdle /\ ChatIdle
  /\ \E bfs \in SeqsUpTo(SampleBusFactors, MaxBusResults) :
       CalcCalled("calculateGlobalBusFactor", [repoBusFactors |-> bfs])

NextGlobalBus == CalcGlobalBusFactor

SpecGlobalBus == InitGlobalBus /\ [][NextGlobalBus]_vars

(***************************************************************************)
(* SpecHealth: calculateHealthScore applied to the issue lists of at most  *)
(* MaxIssues open and MaxIssues closed issues and the pull request lists   *)
(* of at most MaxPulls entries.                                            *)
(***************************************************************************)
InitHealth ==
  /\ FetchIdle /\ ApiIdle /\ BusIdle /\ RunIdle /\ TodoIdle /\ SwitchIdle /\ ChatIdle
  /\ \/ \E issues \in {l \in IssueLists : CountRealIssues(l) <= MaxIssues},
           prs \in PullLists :
          CalcCalled("calculateHealthScore",
                     [issues |-> issues, pullRequests |-> prs])
     \/ \E r \in LargeRepositories : CalcCalled("calculateHealthScore", r)

NextHealth == CalcHealthScore

SpecHealth == InitHealth /\ [][NextHealth]_vars

(***************************************************************************)
(* SpecAvgHealth: calculateAverageHealthScore applied to every sequence of *)
(* at most MaxHealthResults per-repository results.                        *)
(***************************************************************************)
InitAvgHealth ==
  /\ FetchIdle /\ ApiIdle /\ BusIdle /\ RunIdle /\ TodoIdle /\ SwitchIdle /\ ChatIdle
  /\ \E hss \in SeqsUpTo(SampleHealthScores, MaxHealthResults) :
       CalcCalled("calculateAverageHealthScore", [healthScores |-> hss])

NextAvgHealth == CalcAverageHealthScore

SpecAvgHealth == InitAvgHealth /\ [][NextAvgHealth]_vars

(***************************************************************************)
(* SpecHealthResults: every HealthScoreResult of the two calculators, the  *)
(* per-repository ones of SpecHealth and the global ones of SpecAvgHealth. *)
(***************************************************************************)
InitHealthResults == InitHealth \/ InitAvgHealth

NextHealthResults == CalcHealthScore \/ CalcAverageHealthScore

SpecHealthResults == InitHealthResults /\ [][NextHealthResults]_vars

(***************************************************************************)
(* SpecActivity: calculateActivityScore applied to every series of two     *)
(* runs of at most MaxRun weeks, and to a series next to a bound.          *)
(***************************************************************************)
InitActivity ==
  /\ FetchIdle /\ ApiIdle /\ BusIdle /\ RunIdle /\ TodoIdle /\ SwitchIdle /\ ChatIdle
  /\ \E acts \in ActivityInputs(MaxRun) \cup LargeActivities :
       CalcCalled("calculateActivityScore", [activities |-> acts])

NextActivity == CalcActivityScore

SpecActivity == InitActivity /\ [][NextActivity]_vars

(***************************************************************************)
(* SpecStress: calculateStressScore applied to every sampled set of at     *)
(* most MaxCommits commits.                                                *)
(***************************************************************************)
InitStress ==
  /\ FetchIdle /\ ApiIdle /\ BusIdle /\ RunIdle /\ TodoIdle /\ SwitchIdle /\ ChatIdle
  /\ \E commits \in StressInputs(MaxCommits) :
       CalcCalled("calculateStressScore", [commits |-> commits])

NextStress == CalcStressScore

SpecStress == InitStress /\ [][NextStress]_vars

(***************************************************************************)
(* SpecAnalyze: analyzeUserStress applied to every sampled set of at most  *)
(* MaxCommits dated commits, the empty set included, and to TrendCommits.  *)
(***************************************************************************)
InitAnalyze ==
  /\ FetchIdle /\ ApiIdle /\ BusIdle /\ RunIdle /\ TodoIdle /\ SwitchIdle /\ ChatIdle
  /\ \E commits \in AnalyzeInputs(MaxCommits) \cup {TrendCommits} :
       CalcCalled("analyzeUserStress", [commits |-> commits])

NextAnalyze == CalcAnalyzeUserStress

SpecAnalyze == InitAnalyze /\ [][NextAnalyze]_vars

(***************************************************************************)
(* SpecTimeline: aggregateCommitActivity applied to the series of at most  *)
(* MaxTimelineRepos repositories.                                          *)
(***************************************************************************)
InitTimeline ==
  /\ FetchIdle /\ ApiIdle /\ BusIdle /\ RunIdle /\ TodoIdle /\ SwitchIdle /\ ChatIdle
  /\ \E rcd \in TimelineInputs(MaxTimelineRepos) :
       CalcCalled("aggregateCommitActivity", [repoCommitData |-> rcd])

NextTimeline == CalcAggregateCommitActivity

SpecTimeline == InitTimeline /\ [][NextTimeline]_vars

(***************************************************************************)
(* SpecInsights: generateInsights applied to the sample results and every  *)
(* count of inactive repositories among at most MaxTotalRepos.             *)
(***************************************************************************)
InitInsights ==
  /\ FetchIdle /\ ApiIdle /\ BusIdle /\ RunIdle /\ TodoIdle /\ SwitchIdle /\ ChatIdle
  /\ \E args \in {a \in InsightInputs : a.inactiveRepos <= a.totalRepos} :
       CalcCalled("generateInsights", args)

NextInsights == CalcGenerateInsights

SpecInsights == InitInsights /\ [][NextInsights]_vars

(***************************************************************************)
(* SpecTodo: the todo server handling up to MaxTodoRequests requests of    *)
(* any route, one after the other (Node runs each handler to its end).     *)
(***************************************************************************)
InitTodo ==
  /\ FetchIdle /\ ApiIdle /\ BusIdle /\ RunIdle /\ CalcIdle /\ SwitchIdle /\ ChatIdle
  /\ ServerStarted /\ ClientIdle

NextTodo ==
  \/ GetTodos \/ GetTodo \/ PostTodo \/ PutTodo \/ DeleteTodo
  \/ DeleteCompleted

SpecTodo == InitTodo /\ [][NextTodo]_vars

(***************************************************************************)
(* SpecClient: one todo client and the todo server; the client sends up to *)
(* MaxClientOps requests, each at any moment, from the moment the page has  *)
(* asked for the list of the server's two todos.                           *)
(***************************************************************************)
InitClient ==
  /\ FetchIdle /\ ApiIdle /\ BusIdle /\ RunIdle /\ CalcIdle /\ SwitchIdle /\ ChatIdle
  /\ FetchTodosCalled

NextClient ==
  \/ ClientAdd \/ ClientToggle \/ ClientDelete \/ ClientClear
  \/ ClientEditStarts \/ ClientEditSaves \/ ClientEditCancels
  \/ ServerHandles \/ ClientReceives

SpecClient == InitClient /\ [][NextClient]_vars

(***************************************************************************)
(* SpecSwitch: the hook is rendered with a handle, with another handle or  *)
(* with none, at any moment of the runs under way, MaxSwitchRuns runs in   *)
(* all; each handle has at most MaxSwitchRepos repositories, any of them   *)
(* private.                                                                *)
(***************************************************************************)
InitSwitch ==
  /\ FetchIdle /\ ApiIdle /\ BusIdle /\ RunIdle /\ CalcIdle /\ TodoIdle /\ ChatIdle
  /\ username = NullValue
  /\ userRepos \in [Handles -> UNION {HandleRepoLists(h, MaxSwitchRepos) : h \in Handles}]
  /\ \A h \in Handles : userRepos[h] \in HandleRepoLists(h, MaxSwitchRepos)
  /\ runs = <<>>

NextSwitch ==
  \/ UsernameChanges \/ UsernameCleared
  \/ SwitchFetchFailed \/ SwitchGotRepos \/ SwitchComputed

SpecSwitch == InitSwitch /\ [][NextSwitch]_vars

(***************************************************************************)
(* SpecChat: the chatbot, rendered with or without a user, with up to      *)
(* MaxSubmits submit events of the form,                                   *)
(* each response of up to MaxEvents data lines.  In FairSpecChat every     *)
(* request comes to an end: fetch settles and the stream delivers its      *)
(* lines and ends or fails.                                                *)
(***************************************************************************)
InitChat ==
  /\ FetchIdle /\ ApiIdle /\ BusIdle /\ RunIdle /\ CalcIdle /\ TodoIdle /\ SwitchIdle
  /\ \E u \in {NullValue, ChatUser} : ChatWith(u)

NextChat ==
  \/ UserChanges \/ TypeInput \/ HandleSend
  \/ FetchFails \/ FetchOk \/ ReadLine \/ ReadDone \/ ReadFails

SpecChat == InitChat /\ [][NextChat]_vars

FairSpecChat == SpecChat /\ WF_vars(ChatStep)

(***************************************************************************)
(* Derived views of the log of one call.                                   *)
(***************************************************************************)
ReqIdx == {j \in 1..Len(flog) : flog[j].e = "req"}

Requests == Cardinality(ReqIdx)

\* the requests issued so far, the one that got no response included
Issued == Cardinality({j \in 1..Len(flog) : flog[j].e \in {"req", "failed"}})

\* the responses received so far, in order
RECURSIVE ReceivedFrom(_)
ReceivedFrom(j) ==
  IF j > Len(flog) THEN <<>>
  ELSE IF flog[j].e = "req" THEN <<flog[j].r>> \o ReceivedFrom(j + 1)
  ELSE ReceivedFrom(j + 1)

Received == ReceivedFrom(1)

FetchDone == fpc \in {"returned", "thrown"}

(***************************************************************************)
(* Claims about the fetch client (SpecFetch, FairSpecFetch).               *)
(***************************************************************************)
\* the responses that are neither a success, nor a 404, nor the rate-limit signal
IsOtherFailure(r) ==
  ~ResponseOk(r) /\ r.status # 404 /\ ~IsRateLimitSignal(r)

Exhausted == fpc = "thrown" /\ ferr = ErrExhausted

\* C1: a rate-limit response (403 with remaining quota 0) does not count
\* against the attempt budget: when the exhausted-retries failure is raised,
\* 3 requests were answered by something other than the rate-limit signal.
C1_RateLimitNotCounted ==
  Exhausted =>
    Cardinality({j \in ReqIdx : ~IsRateLimitSignal(flog[j].r)}) = retries

\* C2: with no rate-limit signal among the responses the call issues at most
\* 3 requests, returns the first successful response it receives, and fails
\* with the exhausted-retries error exactly when 3 responses in a row were
\* non-success statuses other than 404; and the call terminates.
NoRateLimitSeen == \A j \in ReqIdx : ~IsRateLimitSignal(flog[j].r)

C2_Bounded ==
  NoRateLimitSeen =>
    /\ Requests <= retries /\ Issued <= retries
    /\ fpc = "returned" =>
         /\ ResponseOk(fresp)
         /\ fresp = Received[Requests]
         /\ \A k \in 1..(Requests - 1) : ~ResponseOk(Received[k])
    /\ (\E k \in 1..Requests : ResponseOk(Received[k]) /\ FetchDone) =>
         fpc = "returned"
    /\ Exhausted <=>
         /\ FetchDone
         /\ Requests = retries
         /\ \A k \in 1..retries :
              ~ResponseOk(Received[k]) /\ Received[k].status # 404

C2_AtMostThreeRequests == [](C2_Bounded) /\ <>(FetchDone)

\* a call that used its whole budget on failures and raised the error
C2_Witness ==
  /\ Exhausted /\ NoRateLimitSeen /\ Requests = retries
  /\ \E k \in 1..Requests : Received[k].status = 500

\* C3: a 404 at any attempt fails the call at once with the not-found error:
\* the 404 is the last thing in the log (no further request, no sleep).
C3_NotFoundImmediate ==
  \A j \in ReqIdx :
    flog[j].r.status = 404 =>
      /\ j = Len(flog)
      /\ fpc \in {"got", "thrown"}
      /\ fpc = "thrown" => ferr = ErrNotFound

\* the 404 arrives at the 3rd attempt, after two failures and their backoffs
C3_Witness ==
  /\ fpc = "thrown" /\ ferr = ErrNotFound
  /\ Requests = retries
  /\ \E j \in 1..Len(flog) : flog[j].e = "backoff"

\* C4: whenever attempt n receives a non-success status that is neither 404
\* nor the rate-limit signal and another attempt follows, the client sleeps
\* 1000*n ms between the two.
AttemptNo(j) == Cardinality({k \in ReqIdx : k <= j})

C4_LinearBackoff ==
  \A j \in ReqIdx :
    (IsOtherFailure(flog[j].r) /\ \E k \in ReqIdx : k > j) =>
      /\ flog[j + 1] = SleepEvent("backoff", BackoffUnitMs * AttemptNo(j))
      /\ j + 2 \in ReqIdx

(***************************************************************************)
(* Claims about the API functions (SpecApi).                               *)
(***************************************************************************)
PageSize(p) == Len(ServerPage(p))

\* the first page that is empty or shorter than the page size
LastPageNo ==
  CHOOSE n \in 1..(Len(srv) + 1) :
    /\ PageSize(n) < perPage
    /\ \A m \in 1..(n - 1) : PageSize(m) = perPage

RECURSIVE PagesUpTo(_)
PagesUpTo(n) == IF n = 0 THEN <<>> ELSE PagesUpTo(n - 1) \o ServerPage(n)

\* the walk ended without any failed request
WalkSucceeded == afn \in Walkers /\ apc = "returned" /\ ~acaught

\* C5: when no request fails a walker requests the pages 1, 2, 3, ... in
\* order and returns their concatenation, stopping right after the first
\* page that is empty or short: sizes [100, 100, 37] give 237 records with
\* 3 requests, sizes [100, 100, 100, 0] give 300 records with 4 requests.
C5_WalkerPages ==
  WalkSucceeded =>
    /\ acalls = [k \in 1..LastPageNo |-> k]
    /\ aret = PagesUpTo(LastPageNo)
    /\ (PageSize(1) = 100 /\ PageSize(2) = 100 /\ PageSize(3) = 37) =>
         (Len(aret) = 237 /\ Len(acalls) = 3)
    /\ (PageSize(1) = 100 /\ PageSize(2) = 100 /\ PageSize(3) = 100
          /\ PageSize(4) = 0) =>
         (Len(aret) = 300 /\ Len(acalls) = 4)

\* the walk over pages of sizes [100, 100, 37] has returned
C5_Witness ==
  /\ WalkSucceeded
  /\ PageSize(1) = 100 /\ PageSize(2) = 100 /\ PageSize(3) = 37
  /\ Len(aret) = 237 /\ acalls = <<1, 2, 3>>

\* C8: fetchCommitActivity never fails towards its caller: on 202 it waits
\* and requests once more, returns the empty series when the second answer
\* is 202 too, and any failure yields the empty series, not an exception.
C8_ActivityNeverFails ==
  (afn = "fetchCommitActivity" /\ ApiDone) =>
    /\ apc = "returned"
    /\ Len(acalls) <= 2
    /\ Len(acalls) = 2 => aslept = StatsRetryWaitMs
    /\ acaught => aret = <<>>

(***************************************************************************)
(* Claims about calculateBusFactor (SpecBus).                              *)
(***************************************************************************)
RECURSIVE SumOf(_)
SumOf(cs) == IF cs = <<>> THEN 0 ELSE cs[1].contributions + SumOf(Tail(cs))

MaxOf(cs) ==
  CHOOSE m \in {cs[i].contributions : i \in 1..Len(cs)} :
    \A i \in 1..Len(cs) : cs[i].contributions <= m

\* C9: empty list or zero total: LOW, ratio 0, score 100; otherwise ratio =
\* first/sum, score = 100 - ratio*100, HIGH above 0.6, MEDIUM above 0.4,
\* else LOW (0.6 is MEDIUM, 0.4 is LOW; [70, 30] gives HIGH, 0.7, 30);
\* always 0 <= ratio <= 1 and 0 <= score <= 100.
C9_BusFactor ==
  bpc = "done" =>
    LET cs == contributors
        sum == SumOf(cs)
        ratio == bfres.topContributorRatio
        score == bfres.score
    IN /\ (Len(cs) = 0 \/ sum = 0) =>
            /\ bfres.risk = "LOW"
            /\ RatEq(ratio, RatInt(0))
            /\ RatEq(score, RatInt(100))
       /\ (Len(cs) > 0 /\ sum > 0) =>
            /\ ratio.den > 0 /\ ratio.num * sum = cs[1].contributions * ratio.den
            /\ score.den > 0
            /\ score.num * sum = (100 * sum - 100 * cs[1].contributions) * score.den
            /\ bfres.risk = "HIGH" <=> 10 * cs[1].contributions > 6 * sum
            /\ bfres.risk = "MEDIUM" <=>
                 /\ 10 * cs[1].contributions <= 6 * sum
                 /\ 10 * cs[1].contributions > 4 * sum
            /\ bfres.risk = "LOW" <=> 10 * cs[1].contributions <= 4 * sum
       /\ (Len(cs) = 2 /\ cs[1].contributions = 70 /\ cs[2].contributions = 30) =>
            /\ bfres.risk = "HIGH"
            /\ RatEq(ratio, Rat(7, 10))
            /\ RatEq(score, RatInt(30))
       /\ RatLe(RatInt(0), ratio) /\ RatLe(ratio, RatInt(1))
       /\ RatLe(RatInt(0), score) /\ RatLe(score, RatInt(100))

\* the top contributor holds exactly 0.6 of the contributions
C9_Witness ==
  /\ bpc = "done" /\ Len(contributors) = 2
  /\ contributors[1].contributions = 60 /\ contributors[2].contributions = 40
  /\ bfres.risk = "MEDIUM"

\* the input in every order
Orderings(cs) ==
  { [i \in 1..Len(cs) |-> cs[p[i]]] : p \in Permutations(1..Len(cs)) }

\* C10: the result does not depend on the order of the input: every
\* permutation gives the same ratio (largest contribution / sum), the same
\* risk tier and the same score.
C10_OrderIndependent ==
  bpc = "done" =>
    /\ \A perm \in Orderings(contributors) :
         LET r == calculateBusFactor(perm) IN
           /\ RatEq(r.topContributorRatio, bfres.topContributorRatio)
           /\ r.risk = bfres.risk
           /\ RatEq(r.score, bfres.score)
    /\ SumOf(contributors) > 0 =>
         RatEq(bfres.topContributorRatio,
               Rat(MaxOf(contributors), SumOf(contributors)))

(***************************************************************************)
(* Claims about the analysis run (SpecRun).                                *)
(***************************************************************************)
PublicNames ==
  {srvRepos[i].full_name : i \in {j \in 1..Len(srvRepos) : ~srvRepos[j].private}}

InitialFetchFailed == Rejected(userP) \/ Rejected(reposP)

\* what the calculators of repository i were given, a failed facet being empty
FacetOrEmpty(i, facet, sample) ==
  IF repoDataPromises[i].outcome[facet] = "ok" THEN sample ELSE <<>>

NoAnalytics ==
  /\ data.busFactors = EmptyMap /\ data.healthScores = EmptyMap
  /\ data.activityScores = EmptyMap

\* C6: whatever detail fetches fail, the run completes with loading = false
\* and error = null and the three maps have an entry for every public
\* repository, a failed facet counting as an empty collection; the run ends
\* with error set and no analytics iff fetchUser or fetchUserRepos failed.
C6_FailuresIsolated ==
  rpc = "done" =>
    /\ data.loading = FALSE
    /\ data.error # NullValue <=> InitialFetchFailed
    /\ data.error # NullValue => NoAnalytics
    /\ data.error = NullValue =>
         /\ DOMAIN data.busFactors = PublicNames
         /\ DOMAIN data.healthScores = PublicNames
         /\ DOMAIN data.activityScores = PublicNames
         /\ \A i \in 1..Len(repoDataPromises) :
              LET name == publicRepos[i].full_name
                  oc == repoDataPromises[i].outcome
              IN /\ oc.contributors # "ok" =>
                      data.busFactors[name] = calculateBusFactor(<<>>)
                 /\ oc.commitActivity # "ok" =>
                      data.activityScores[name] = calculateActivityScore(<<>>)
                 /\ (oc.contributors # "rejected"
                       /\ oc.commitActivity # "rejected") =>
                      /\ data.busFactors[name] =
                           calculateBusFactor(
                             FacetOrEmpty(i, "contributors", SampleContributors))
                      /\ data.activityScores[name] =
                           calculateActivityScore(
                             FacetOrEmpty(i, "commitActivity", SampleActivity))
                      /\ data.healthScores[name] =
                           calculateHealthScore(
                             FacetOrEmpty(i, "issues", SampleIssues),
                             FacetOrEmpty(i, "pullRequests", SamplePulls))

\* a run over two public repositories, one without contributors and one
\* without issues, has completed
C6_Witness ==
  /\ rpc = "done" /\ data.error = NullValue
  /\ Len(repoDataPromises) = 2
  /\ repoDataPromises[1].outcome.contributors = "empty"
  /\ repoDataPromises[1].outcome.issues = "ok"
  /\ repoDataPromises[2].outcome.issues = "empty"
  /\ repoDataPromises[2].outcome.commitActivity = "rejected"

\* C7: detail requests are in flight for at most 5 repositories at a time,
\* and a repository of batch k+1 is requested only after every repository
\* of batch k has resolved and the 1-second delay has elapsed.
BatchNo(i) == (i - 1) \div batchSize

C7_Batched ==
  /\ Cardinality({i \in 1..Len(repoDataPromises) :
                    repoDataPromises[i].state = "inflight"}) <= batchSize
  /\ \A i \in 1..Len(repoDataPromises) :
       /\ \A j \in 1..Len(repoDataPromises) :
            BatchNo(j) < BatchNo(i) => repoDataPromises[j].state = "resolved"
       /\ slept >= BatchDelayMs * BatchNo(i)
(***************************************************************************)
(* C11: calculateGlobalBusFactor over N per-repository results returns     *)
(* LOW, ratio 0, score 100 and no contributors for N = 0; for N > 0 the    *)
(* risk is HIGH if count(HIGH) > 0.3 N, else MEDIUM if count(HIGH) > 0 or  *)
(* count(MEDIUM) > 0.5 N, else LOW, the ratio and the score are the means  *)
(* of the per-repository values, totalContributors is their sum and        *)
(* topContributor is empty.                                                *)
(***************************************************************************)
\* total * 1 = x[1] + ... + x[n] for the field values picked by the caller
RECURSIVE RatTotal(_)
RatTotal(xs) ==
  IF xs = <<>> THEN RatInt(0) ELSE RatNorm(RatAdd(xs[1], RatTotal(Tail(xs))))

RECURSIVE IntTotal(_)
IntTotal(xs) == IF xs = <<>> THEN 0 ELSE xs[1] + IntTotal(Tail(xs))

\* mean is the arithmetic mean of the rationals xs
IsMeanOf(mean, xs) == RatEq(RatMul(mean, RatInt(Len(xs))), RatTotal(xs))

C11_GlobalBusFactor ==
  CalcDone("calculateGlobalBusFactor") =>
    LET bfs == cargs.repoBusFactors
        n == Len(bfs)
        high == Cardinality({i \in 1..n : bfs[i].risk = "HIGH"})
        medium == Cardinality({i \in 1..n : bfs[i].risk = "MEDIUM"})
    IN IF n = 0
         THEN /\ cres.risk = "LOW"
              /\ RatEq(cres.topContributorRatio, RatInt(0))
              /\ RatEq(cres.score, RatInt(100))
              /\ cres.totalContributors = 0
              /\ cres.topContributor = ""
         ELSE /\ cres.risk =
                   IF 10 * high > 3 * n THEN "HIGH"
                   ELSE IF high > 0 \/ 2 * medium > n THEN "MEDIUM"
                   ELSE "LOW"
              /\ IsMeanOf(cres.topContributorRatio,
                          [i \in 1..n |-> bfs[i].topContributorRatio])
              /\ IsMeanOf(cres.score, [i \in 1..n |-> bfs[i].score])
              /\ cres.totalContributors =
                   IntTotal([i \in 1..n |-> bfs[i].totalContributors])
              /\ cres.topContributor = ""

\* four repositories of which one is HIGH and two are MEDIUM: MEDIUM overall
C11_Witness ==
  /\ CalcDone("calculateGlobalBusFactor")
  /\ Len(cargs.repoBusFactors) = 4
  /\ CountRisk(cargs.repoBusFactors, "HIGH") = 1
  /\ CountRisk(cargs.repoBusFactors, "MEDIUM") = 2
  /\ cres.risk = "MEDIUM"
  /\ cres.totalContributors > 0

(***************************************************************************)
(* C12: calculateHealthScore leaves the entries flagged as pull requests   *)
(* out of totalIssues and closedIssues; issueResolution is                 *)
(* closedIssues / totalIssues * 40, or 40 without real issues; prMergeRate *)
(* is mergedPRs / totalPRs * 40, or 40 without pull requests; prSpeed is   *)
(* 20 exactly when the mean merge time of the merged pull requests with    *)
(* both timestamps is above 0 and below 48 hours, else 0; the score is the *)
(* rounded sum and the grade is EXCELLENT from 80, GOOD from 60, FAIR from *)
(* 40, POOR below.  The breakdown reports the sub-scores rounded.  Rounded *)
(* is to a nearest integer: the code rounds doubles, and a sum that lies   *)
(* halfway between two integers is computed a little above or below it.    *)
(***************************************************************************)
\* the integer nearest to a fraction, halves rounded up
MathRound(x) == (2 * x.num + x.den) \div (2 * x.den)

\* n is an integer nearest to x: n - 1/2 <= x <= n + 1/2
IsNearest(n, x) ==
  /\ RatLe(RatInt(2 * n - 1), RatMul(RatInt(2), x))
  /\ RatLe(RatMul(RatInt(2), x), RatInt(2 * n + 1))

RealIssueIdx(issues) == {i \in 1..Len(issues) : ~issues[i].pull_request}
ClosedIssueIdx(issues) ==
  {i \in RealIssueIdx(issues) : issues[i].state = "closed"}
MergedIdx(prs) == {i \in 1..Len(prs) : prs[i].merged}
TimedIdx(prs) ==
  {i \in MergedIdx(prs) :
     prs[i].merged_at # NullTime /\ prs[i].created_at # NullTime}

\* the sub-scores as the claim states them
ClaimedIssueResolution(issues) ==
  IF RealIssueIdx(issues) = {} THEN RatInt(40)
  ELSE Rat(Cardinality(ClosedIssueIdx(issues)) * 40,
           Cardinality(RealIssueIdx(issues)))

ClaimedPrMergeRate(prs) ==
  IF Len(prs) = 0 THEN RatInt(40)
  ELSE Rat(Cardinality(MergedIdx(prs)) * 40, Len(prs))

ClaimedPrSpeed(prs) ==
  LET n == Cardinality(TimedIdx(prs))
      hours == IntTotal([i \in 1..Len(prs) |->
                           IF i \in TimedIdx(prs)
                             THEN prs[i].merged_at - prs[i].created_at
                             ELSE 0])
  IN IF n > 0 /\ hours > 0 /\ hours < 48 * n THEN 20 ELSE 0

ClaimedGrade(score) ==
  IF score >= 80 THEN "EXCELLENT"
  ELSE IF score >= 60 THEN "GOOD"
  ELSE IF score >= 40 THEN "FAIR"
  ELSE "POOR"

C12_HealthScore ==
  CalcDone("calculateHealthScore") =>
    LET issues == cargs.issues
        prs == cargs.pullRequests
        ir == ClaimedIssueResolution(issues)
        pm == ClaimedPrMergeRate(prs)
        ps == ClaimedPrSpeed(prs)
    IN /\ cres.metrics.totalIssues = Cardinality(RealIssueIdx(issues))
       /\ cres.metrics.closedIssues = Cardinality(ClosedIssueIdx(issues))
       /\ cres.metrics.totalPRs = Len(prs)
       /\ cres.metrics.mergedPRs = Cardinality(MergedIdx(prs))
       /\ IsNearest(cres.breakdown.issueResolution, ir)
       /\ IsNearest(cres.breakdown.prMergeRate, pm)
       /\ cres.breakdown.prSpeed = ps
       /\ IsNearest(cres.score, RatAdd(RatAdd(ir, pm), RatInt(ps)))
       /\ cres.grade = ClaimedGrade(cres.score)

\* the example of the claim: 10 issues with 8 closed, 5 pull requests with
\* 4 merged after 20 hours each
C12_Witness ==
  /\ CalcDone("calculateHealthScore")
  /\ Cardinality(RealIssueIdx(cargs.issues)) = 10
  /\ Cardinality(ClosedIssueIdx(cargs.issues)) = 8
  /\ Len(cargs.issues) = 11
  /\ Len(cargs.pullRequests) = 5
  /\ \E i \in 1..5 : cargs.pullRequests[i] = OpenPull
  /\ \A i \in 1..5 : cargs.pullRequests[i] \in {OpenPull, MergedAfter(20)}
  /\ Cardinality(MergedIdx(cargs.pullRequests)) = 4
  /\ cres.breakdown = [issueResolution |-> 32, prMergeRate |-> 32,
                       prSpeed |-> 20]
  /\ cres.score = 84
  /\ cres.grade = "EXCELLENT"

(***************************************************************************)
(* C13: the score of every result of calculateHealthScore is the rounded   *)
(* sum of the three sub-scores reported in the breakdown of that result.   *)
(***************************************************************************)
C13_ScoreIsBreakdownSum ==
  CalcDone("calculateHealthScore") =>
    cres.score = MathRound(RatInt(cres.breakdown.issueResolution
                                    + cres.breakdown.prMergeRate
                                    + cres.breakdown.prSpeed))

\* n is x rounded to the nearest integer, halves up: n <= x + 1/2 < n + 1
IsRounded(n, x) ==
  /\ RatLe(RatInt(2 * n - 1), RatMul(RatInt(2), x))
  /\ RatLt(RatMul(RatInt(2), x), RatInt(2 * n + 1))

\* C13 as amended: the score is the sum of the unrounded sub-scores,
\* closedIssues / totalIssues * 40 and mergedPRs / totalPRs * 40 over the
\* counts of the result's own metrics (40 where the count is 0) plus the
\* reported prSpeed, rounded to a nearest integer (the sum is a sum of
\* doubles, so one that lies halfway goes up or down), and it is within 1 of
\* the sum of the reported, rounded sub-scores.

C13_ScoreIsRoundedSum ==
  CalcDone("calculateHealthScore") =>
    LET m == cres.metrics
        ir == IF m.totalIssues > 0
                THEN Rat(m.closedIssues * 40, m.totalIssues) ELSE RatInt(40)
        pm == IF m.totalPRs > 0
                THEN Rat(m.mergedPRs * 40, m.totalPRs) ELSE RatInt(40)
        reported == cres.breakdown.issueResolution
                      + cres.breakdown.prMergeRate + cres.breakdown.prSpeed
    IN /\ IsNearest(cres.score,
                    RatAdd(RatAdd(ir, pm), RatInt(cres.breakdown.prSpeed)))
       /\ cres.score - reported \in {0 - 1, 0, 1}

\* two closed issues of three and one merged pull request of 48: the
\* sub-scores are 26.67 and 0.83, reported as 27 and 1, and their sum of
\* 27.5 is computed as 27.499999999999996: the score is 27
C13_Witness ==
  /\ CalcDone("calculateHealthScore")
  /\ cres.metrics.totalIssues = 3 /\ cres.metrics.closedIssues = 2
  /\ cres.metrics.totalPRs = 48 /\ cres.metrics.mergedPRs = 1
  /\ cres.breakdown = [issueResolution |-> 27, prMergeRate |-> 1,
                       prSpeed |-> 0]
  /\ cres.score = 27

(***************************************************************************)
(* C14: calculateAverageHealthScore over N per-repository results returns  *)
(* score 0, grade POOR and all-zero breakdown and metrics for N = 0; for   *)
(* N > 0 the score and each breakdown sub-score are the rounded means of   *)
(* the per-repository values, the four counts are the sums of the          *)
(* per-repository counts, and avgMergeTimeHours is (sum of the             *)
(* per-repository averages) / N, not weighted by the pull request counts.  *)
(***************************************************************************)
\* the parts of C14 other than avgMergeTimeHours
AverageFields ==
  LET hss == cargs.healthScores
      n == Len(hss)
  IN IF n = 0
       THEN /\ cres.score = 0 /\ cres.grade = "POOR"
            /\ cres.breakdown = [issueResolution |-> 0, prMergeRate |-> 0,
                                 prSpeed |-> 0]
            /\ cres.metrics.totalIssues = 0 /\ cres.metrics.closedIssues = 0
            /\ cres.metrics.totalPRs = 0 /\ cres.metrics.mergedPRs = 0
       ELSE /\ IsRounded(cres.score,
                         Rat(IntTotal([i \in 1..n |-> hss[i].score]), n))
            /\ IsRounded(cres.breakdown.issueResolution,
                 Rat(IntTotal([i \in 1..n |->
                                 hss[i].breakdown.issueResolution]), n))
            /\ IsRounded(cres.breakdown.prMergeRate,
                 Rat(IntTotal([i \in 1..n |->
                                 hss[i].breakdown.prMergeRate]), n))
            /\ IsRounded(cres.breakdown.prSpeed,
                 Rat(IntTotal([i \in 1..n |-> hss[i].breakdown.prSpeed]), n))
            /\ cres.metrics.totalIssues =
                 IntTotal([i \in 1..n |-> hss[i].metrics.totalIssues])
            /\ cres.metrics.closedIssues =
                 IntTotal([i \in 1..n |-> hss[i].metrics.closedIssues])
            /\ cres.metrics.totalPRs =
                 IntTotal([i \in 1..n |-> hss[i].metrics.totalPRs])
            /\ cres.metrics.mergedPRs =
                 IntTotal([i \in 1..n |-> hss[i].metrics.mergedPRs])

\* (sum of the per-repository averages) / N, 0 for N = 0
MeanOfAverages ==
  LET hss == cargs.healthScores
      n == Len(hss)
  IN IF n = 0 THEN RatInt(0)
     ELSE RatDiv(RatTotal([i \in 1..n |-> hss[i].metrics.avgMergeTimeHours]),
                 n)

\* the claim as stated: avgMergeTimeHours is exactly the mean
C14_AverageHealthScore ==
  CalcDone("calculateAverageHealthScore") =>
    /\ AverageFields
    /\ RatEq(cres.metrics.avgMergeTimeHours, MeanOfAverages)

\* C14 as amended: avgMergeTimeHours is that mean rounded to one decimal
\* place, a nearest tenth (the mean is a quotient of doubles, so one that
\* lies halfway between two tenths goes up or down)
C14_AverageHealthScoreRounded ==
  CalcDone("calculateAverageHealthScore") =>
    /\ AverageFields
    /\ LET tenths == RatMul(cres.metrics.avgMergeTimeHours, RatInt(10))
       IN /\ tenths.num % tenths.den = 0
          /\ IsNearest(tenths.num \div tenths.den,
                       RatMul(MeanOfAverages, RatInt(10)))

\* a repository with 5 pull requests merged after 89.6 hours on average and
\* one with 3 merged after 65.3 hours: the unweighted mean of 89.6 and 65.3
\* is 77.45, computed as 77.44999999999999 and reported as 77.4 (the
\* weighted mean is 80.5)
C14_Witness ==
  /\ CalcDone("calculateAverageHealthScore")
  /\ Len(cargs.healthScores) = 2
  /\ RatEq(cargs.healthScores[1].metrics.avgMergeTimeHours, Rat(896, 10))
  /\ RatEq(cargs.healthScores[2].metrics.avgMergeTimeHours, Rat(653, 10))
  /\ cargs.healthScores[1].metrics.mergedPRs = 5
  /\ cargs.healthScores[2].metrics.mergedPRs = 3
  /\ RatEq(cres.metrics.avgMergeTimeHours, Rat(774, 10))

(***************************************************************************)
(* C15: for every non-empty input of calculateAverageHealthScore the       *)
(* returned grade is the threshold mapping (>= 80 EXCELLENT, >= 60 GOOD,   *)
(* >= 40 FAIR, else POOR) of the returned score: a global result with      *)
(* score 80 is EXCELLENT and one with score 60 is not FAIR.                *)
(***************************************************************************)
C15_GradeMatchesScore ==
  (CalcDone("calculateAverageHealthScore") /\ Len(cargs.healthScores) > 0) =>
    cres.grade = ClaimedGrade(cres.score)

(***************************************************************************)
(* C16: every HealthScoreResult, per repository or global, has its score   *)
(* in 0..100, issueResolution in 0..40, prMergeRate in 0..40 and prSpeed   *)
(* equal to 0 or 20.                                                       *)
(***************************************************************************)
HealthResultDone ==
  CalcDone("calculateHealthScore") \/ CalcDone("calculateAverageHealthScore")

ScoresInRange(hs) ==
  /\ hs.score \in 0..100
  /\ hs.breakdown.issueResolution \in 0..40
  /\ hs.breakdown.prMergeRate \in 0..40

C16_HealthRanges ==
  HealthResultDone => (ScoresInRange(cres) /\ cres.breakdown.prSpeed \in {0, 20})

\* C16 as amended: prSpeed is 0 or 20 in a per-repository result and an
\* integer in 0..20 in the global result
C16_HealthRangesAveraged ==
  /\ CalcDone("calculateHealthScore") =>
       (ScoresInRange(cres) /\ cres.breakdown.prSpeed \in {0, 20})
  /\ CalcDone("calculateAverageHealthScore") =>
       (ScoresInRange(cres) /\ cres.breakdown.prSpeed \in 0..20)

\* a global result over one repository with fast merges and one without:
\* prSpeed 10
C16_Witness ==
  /\ CalcDone("calculateAverageHealthScore")
  /\ Len(cargs.healthScores) = 2
  /\ cargs.healthScores[1].breakdown.prSpeed = 20
  /\ cargs.healthScores[2].breakdown.prSpeed = 0
  /\ cres.breakdown.prSpeed = 10

(***************************************************************************)
(* C17: calculateActivityScore(weeks, 12) looks at the last 12 entries     *)
(* only and ignores the weeks without commits; it returns 0 when the       *)
(* series is empty or those entries are all zero and otherwise             *)
(* round(min(100, 20 * log10(avg + 1))) for avg = commits of the non-zero  *)
(* weeks / number of non-zero weeks; the result is an integer in 0..100    *)
(* and is non-decreasing in avg.                                           *)
(***************************************************************************)
\* the indices of the weeks that count: the last 12 entries with commits
CountedWeeks(acts) ==
  {i \in 1..Len(acts) : i > Len(acts) - 12 /\ acts[i].total > 0}

\* avg where some week counts
AvgCommits(acts) ==
  Rat(IntTotal([i \in 1..Len(acts) |->
                  IF i \in CountedWeeks(acts) THEN acts[i].total ELSE 0]),
      Cardinality(CountedWeeks(acts)))

\* the series the result is compared with for monotonicity
ActivityProbes == {a \in ActivityInputs(2) : CountedWeeks(a) # {}}

C17_ActivityScore ==
  CalcDone("calculateActivityScore") =>
    LET acts == cargs.activities
    IN /\ cres \in 0..100
       /\ IF CountedWeeks(acts) = {}
            THEN cres = 0
            ELSE /\ cres = Log10Score(AvgCommits(acts))
                 /\ \A a \in ActivityProbes :
                      /\ RatLe(AvgCommits(acts), AvgCommits(a)) =>
                           cres <= calculateActivityScore(a)
                      /\ RatLe(AvgCommits(a), AvgCommits(acts)) =>
                           calculateActivityScore(a) <= cres

\* the example of the claim: 400 commits over 10 non-zero weeks of the last
\* 12 give 32; and a series whose weeks before the last 12 are ignored
C17_Witness ==
  /\ CalcDone("calculateActivityScore")
  /\ Len(cargs.activities) = 12
  /\ Cardinality(CountedWeeks(cargs.activities)) = 10
  /\ RatEq(AvgCommits(cargs.activities), RatInt(40))
  /\ cres = 32

(***************************************************************************)
(* C18: calculateStressScore gives each commit of the set the score        *)
(* min(1.0, 0.4 [its message contains a stress keyword, in any case]       *)
(* + 0.35 [filesCount > 2 * mean filesCount of the set]                    *)
(* + 0.25 [(hour >= 22 or hour < 5) and filesCount > mean]); every score   *)
(* lies in [0, 1]; a commit at 02:00 with 15 files, mean 5 and message     *)
(* 'urgent hotfix' scores exactly 1.0.                                     *)
(***************************************************************************)
\* the score in hundredths as the claim states it; the score of the code
\* is the double nearest to it
ClaimedStressPercent(commits, i) ==
  LET n == Len(commits)
      files == IntTotal([j \in 1..n |-> commits[j].filesCount])
      c == commits[i]
      lower == toLowerCase(c.message)
      p1 == IF \E k \in STRESS_KEYWORDS : includes(lower, k) THEN 40 ELSE 0
      p2 == IF c.filesCount * n > 2 * files THEN 35 ELSE 0
      p3 == IF (c.hour >= 22 \/ c.hour < 5) /\ c.filesCount * n > files
              THEN 25 ELSE 0
  IN IF p1 + p2 + p3 > 100 THEN 100 ELSE p1 + p2 + p3

C18_StressScore ==
  CalcDone("calculateStressScore") =>
    /\ Len(cres) = Len(cargs.commits)
    /\ \A i \in 1..Len(cres) :
         /\ cres[i].stressScore =
              DoubleOfRat(Rat(ClaimedStressPercent(cargs.commits, i), 100))
         /\ ~DoubleLt[DoubleOf[1], cres[i].stressScore]
         /\ cres[i].message = cargs.commits[i].message
         /\ cres[i].filesCount = cargs.commits[i].filesCount
         /\ cres[i].hour = cargs.commits[i].hour

\* the example of the claim: 02:00, 15 files against a mean of 5, message
\* 'urgent hotfix'
C18_Witness ==
  /\ CalcDone("calculateStressScore")
  /\ Len(cres) = 3
  /\ SumFilesCount(cargs.commits) = 15
  /\ \E i \in 1..3 :
       /\ cres[i].hour = 2 /\ cres[i].filesCount = 15
       /\ cres[i].message = <<"u", "r", "g", "e", "n", "t", " ", "h", "o", "t", "f", "i", "x">>
       /\ cres[i].stressScore = DoubleOf[1]

(***************************************************************************)
(* C19: aggregateCommitActivity returns exactly one entry per distinct     *)
(* week of the input series, keyed by week * 1000 and sorted strictly      *)
(* ascending by week; the totalCommits of an entry is the sum of `total`   *)
(* over the input activities of that week and the sum of its               *)
(* repos[].commits, its repoCount is the length of its repos list, and the *)
(* totalCommits of the whole output add up to the sum of all input totals. *)
(***************************************************************************)
\* the input activities as pairs <<repository index, activity index>>
InputActivities(rcd) ==
  {p \in (1..Len(rcd)) \X (1..3) : p[2] <= Len(rcd[p[1]].activities)}

ActivityAt(rcd, p) == rcd[p[1]].activities[p[2]]

\* the sum of total over the activities P of the input
RECURSIVE TotalOver(_, _)
TotalOver(rcd, P) ==
  IF P = {} THEN 0
  ELSE LET p == CHOOSE q \in P : TRUE
       IN ActivityAt(rcd, p).total + TotalOver(rcd, P \ {p})

C19_Timeline ==
  CalcDone("aggregateCommitActivity") =>
    LET rcd == cargs.repoCommitData
        all == InputActivities(rcd)
        weeks == {ActivityAt(rcd, p).week * 1000 : p \in all}
    IN /\ {cres[i].week : i \in 1..Len(cres)} = weeks
       /\ Len(cres) = Cardinality(weeks)
       /\ \A i \in 1..(Len(cres) - 1) : cres[i].week < cres[i + 1].week
       /\ \A i \in 1..Len(cres) :
            /\ cres[i].totalCommits =
                 TotalOver(rcd, {p \in all :
                                   ActivityAt(rcd, p).week * 1000 = cres[i].week})
            /\ cres[i].totalCommits =
                 IntTotal([j \in 1..Len(cres[i].repos) |->
                             cres[i].repos[j].commits])
            /\ cres[i].repoCount = Len(cres[i].repos)
       /\ IntTotal([i \in 1..Len(cres) |-> cres[i].totalCommits])
            = TotalOver(rcd, all)

\* the second repository starts a week before the first: the entries are
\* created out of order, and the week both have sums their commits
C19_Witness ==
  /\ CalcDone("aggregateCommitActivity")
  /\ Len(cargs.repoCommitData) = 2
  /\ Len(cargs.repoCommitData[1].activities) = 2
  /\ Len(cargs.repoCommitData[2].activities) = 2
  /\ cargs.repoCommitData[2].activities[1].week
       < cargs.repoCommitData[1].activities[1].week
  /\ Len(cres) = 3
  /\ cres[2].repoCount = 2 /\ cres[2].totalCommits = 6

(***************************************************************************)
(* C20: generateInsights returns a non-empty list in the fixed evaluation  *)
(* order (high-risk repository count, good contributor distribution,       *)
(* health grade EXCELLENT or POOR, merge time < 48 h or > 168 h, inactive  *)
(* repositories > 50% or > 0, active ratio > 0.7) with at most one insight *)
(* per condition group; the neutral 'Analytics data loaded successfully'   *)
(* insight is present exactly when no other condition triggered, and then  *)
(* it is the only element.                                                 *)
(***************************************************************************)
\* the condition group an insight belongs to, 7 for the neutral insight
GroupOf(insight) ==
  IF insight.message = MsgBusFactorRisk(insight.n) THEN 1
  ELSE IF insight.message = MsgGoodDistribution THEN 2
  ELSE IF insight.message \in {MsgMergedQuickly, MsgNeedsAttention} THEN 3
  ELSE IF insight.message \in {MsgMergeHours, MsgMergeDays} THEN 4
  ELSE IF insight.message \in {MsgInactivePercent, MsgInactiveCount(insight.n)}
    THEN 5
  ELSE IF insight.message = MsgActive THEN 6
  ELSE IF insight.message = MsgLoaded THEN 7
  ELSE 0

\* whether the condition of group g holds of the arguments
Triggered(g, a) ==
  LET hasBus == a.globalBusFactor # NullResult
      hasHealth == a.globalHealthScore # NullResult
      hours == a.globalHealthScore.metrics.avgMergeTimeHours
  IN CASE g = 1 -> hasBus /\ \E i \in 1..Len(a.busFactors) :
                               a.busFactors[i].risk = "HIGH"
       [] g = 2 -> hasBus /\ a.globalBusFactor.risk = "LOW"
                     /\ Len(a.busFactors) > 0
       [] g = 3 -> hasHealth /\ a.globalHealthScore.grade \in {"EXCELLENT", "POOR"}
       [] g = 4 -> hasHealth /\ \/ hours.num > 0 /\ hours.num < 48 * hours.den
                                \/ hours.num > 168 * hours.den
       [] g = 5 -> a.inactiveRepos > 0
       [] g = 6 -> a.totalRepos - a.inactiveRepos > 0
                     /\ 10 * (a.totalRepos - a.inactiveRepos) > 7 * a.totalRepos

C20_Insights ==
  CalcDone("generateInsights") =>
    /\ Len(cres) > 0
    /\ \A i \in 1..Len(cres) : GroupOf(cres[i]) \in 1..7
    /\ \A i \in 1..(Len(cres) - 1) : GroupOf(cres[i]) < GroupOf(cres[i + 1])
    /\ \A g \in 1..6 :
         Triggered(g, cargs) <=> \E i \in 1..Len(cres) : GroupOf(cres[i]) = g
    /\ (\E i \in 1..Len(cres) : cres[i].message = MsgLoaded)
         <=> (\A g \in 1..6 : ~Triggered(g, cargs))
    /\ (\E i \in 1..Len(cres) : cres[i].message = MsgLoaded) => Len(cres) = 1

\* every group triggered at once: six insights in the evaluation order
C20_Witness ==
  /\ CalcDone("generateInsights")
  /\ Len(cres) = 6
  /\ [i \in 1..6 |-> GroupOf(cres[i])] = <<1, 2, 3, 4, 5, 6>>
  /\ cargs.inactiveRepos = 1 /\ cargs.totalRepos = 4

(***************************************************************************)
(* C21: in the todo server, DELETE /api/todos removes exactly the todos    *)
(* whose completed flag is set, keeps every other todo unchanged and in    *)
(* its original relative order, and answers with deleted equal to the      *)
(* number of todos removed; repeating the request with no change in        *)
(* between removes nothing and answers deleted = 0.                        *)
(***************************************************************************)
IsClearRequest(req) == req.method = "DELETE" /\ req.id = NoId

\* the positions of the todos of ts that are not completed
ActiveIdx(ts) == {i \in 1..Len(ts) : ~ts[i].completed}

\* the k-th of these positions
NthActive(ts, k) ==
  CHOOSE i \in ActiveIdx(ts) : Cardinality({j \in ActiveIdx(ts) : j <= i}) = k

C21_ClearCompleted ==
  [][(served' = served + 1 /\ IsClearRequest(treq')) =>
       /\ Len(todos') = Cardinality(ActiveIdx(todos))
       /\ \A k \in 1..Len(todos') : todos'[k] = todos[NthActive(todos, k)]
       /\ tres'.status = 200
       /\ tres'.body.deleted = Len(todos) - Cardinality(ActiveIdx(todos))
       /\ nextId' = nextId
       /\ IsClearRequest(treq) => (todos' = todos /\ tres'.body.deleted = 0)]_vars

\* a clear request has removed a todo and kept another one
C21_Witness ==
  /\ IsClearRequest(treq)
  /\ tres.body.deleted = 1
  /\ Len(todos) = 1
  /\ removed # {}

(***************************************************************************)
(* C23: in the todo server, after any sequence of create, update, delete   *)
(* and clear-completed requests, all stored todos have pairwise distinct   *)
(* ids, ids are handed out in strictly increasing order starting at 1, and *)
(* the id of a deleted todo is never assigned again to a later todo.       *)
(***************************************************************************)
C23_Ids ==
  /\ \A i, j \in 1..Len(todos) : i # j => todos[i].id # todos[j].id
  /\ Len(issued) > 0 => issued[1] = 1
  /\ \A i \in 2..Len(issued) : issued[i - 1] < issued[i]
  /\ IdsOf(todos) \cap removed = {}
  /\ IdsOf(todos) \cup removed = {issued[i] : i \in 1..Len(issued)}

\* a todo was created after another one had been deleted
C23_Witness ==
  /\ treq.method = "POST" /\ tres.status = 201
  /\ removed # {}
  /\ Len(todos) = 2
  /\ \A id \in removed : id < tres.body.id

(***************************************************************************)
(* C24: in the todo server, every rejected request leaves the todo list    *)
(* and the next id unchanged: POST with missing or blank text (400), PUT   *)
(* with blank text (400) even when a completed value is supplied in the    *)
(* same body, and GET, PUT or DELETE of an id that does not exist (404).   *)
(***************************************************************************)
BlankText(body) == "text" \in DOMAIN body /\ \A i \in 1..Len(body.text) : body.text[i] = " "

\* whether the claim names the request as one the server rejects
RejectedRequest(req, ts) ==
  \/ req.method = "POST" /\ ("text" \notin DOMAIN req.body \/ BlankText(req.body))
  \/ req.method = "PUT" /\ req.id \in IdsOf(ts) /\ BlankText(req.body)
  \/ req.method \in {"GET", "PUT", "DELETE"} /\ req.id # NoId
       /\ req.id \notin IdsOf(ts)

C24_RejectedUnchanged ==
  [][served' = served + 1 =>
       /\ RejectedRequest(treq', todos) <=> tres'.status \in {400, 404}
       /\ RejectedRequest(treq', todos) => (todos' = todos /\ nextId' = nextId)
       /\ (treq'.method \in {"POST", "PUT"} /\ tres'.status >= 400
             /\ treq'.id \in IdsOf(todos) \cup {NoId}) => tres'.status = 400
       /\ (treq'.id # NoId /\ treq'.id \notin IdsOf(todos)) => tres'.status = 404]_vars

\* a PUT with blank text and the opposite completed value was rejected
C24_Witness ==
  /\ treq.method = "PUT" /\ tres.status = 400
  /\ "completed" \in DOMAIN treq.body
  /\ \E i \in 1..Len(todos) :
       todos[i].id = treq.id /\ todos[i].completed # treq.body.completed

(***************************************************************************)
(* C25: for a single todo client talking to the todo server, once every    *)
(* issued request has received its response the client's local todos list  *)
(* equals the server's list (same ids, texts and completed flags), for     *)
(* every interleaving of server processing order and response delivery     *)
(* order of overlapping toggle, edit, delete and clear-completed           *)
(* operations.                                                             *)
(***************************************************************************)
\* every request issued has received its response
Quiescent == sent = {} /\ DOMAIN inbox = {}

\* no todo was created since the list was loaded: the operations so far
\* are toggles, edits, deletes and clear-completed
NoneCreated == issued = <<1, 2>>

C25_ClientEqualsServer == (Quiescent /\ NoneCreated) => clientTodos = todos

(***************************************************************************)
(* C22: in useGithubData, when the username changes from A to B while A's  *)
(* analysis run is still in flight, the results of A's run are discarded:  *)
(* no state update of the superseded run is applied after B's run has      *)
(* started, so once both runs have settled user, repos, busFactors,        *)
(* healthScores and the global results all belong to B, and the keys of    *)
(* busFactors equal the full names of repos.                               *)
(***************************************************************************)
FullNames(repos) == {repos[i].full_name : i \in 1..Len(repos)}

\* a run was superseded by a run for another handle, and every run went
\* through to its last state update
BothSettled ==
  /\ username \in Handles
  /\ \E k \in 1..(Len(runs) - 1) : runs[k].handle # runs[k + 1].handle
  /\ \A k \in 1..Len(runs) : runs[k].pc = "done"

C22_SupersededDiscarded ==
  BothSettled =>
    /\ data.user = username
    /\ data.repos = filterPublic(userRepos[username])
    /\ DOMAIN data.busFactors = FullNames(data.repos)
    /\ DOMAIN data.healthScores = FullNames(data.repos)

(***************************************************************************)
(* C26: in the chatbot at most one /chat request is in flight at any time  *)
(* (a submission while isGenerating is true, or with blank input, changes  *)
(* nothing); every accepted submission appends exactly one user message    *)
(* followed by exactly one assistant placeholder, and eventually - whether *)
(* the stream ends normally, ends without content, or fails - isGenerating *)
(* returns to false and that placeholder holds non-empty text (the last    *)
(* streamed message, 'No response received from the server.', or an error  *)
(* text).                                                                  *)
(***************************************************************************)
BlankInput == \A i \in 1..Len(CharsOf[input]) : CharsOf[input][i] = " "

\* the texts a settled placeholder can hold
StreamedTexts == {line.message : line \in SampleLines} \ {""}
ErrorTexts ==
  {ErrorText(m) : m \in {ErrFailedToFetch, ErrHttp, ErrNoBody, ErrNetwork}}

\* the placeholder of the last accepted submission is the last message
PlaceholderAnswered ==
  LET last == messages[Len(messages)]
  IN /\ last.role = "assistant" /\ last.id = assistantMessageId
     /\ last.content # ""
     /\ last.content \in StreamedTexts \cup {NoResponseText} \cup ErrorTexts

\* what a submission does to the state
SubmissionEffect ==
  IF isGenerating \/ BlankInput
    THEN UNCHANGED <<messages, input, isGenerating, chatPc, inFlight>>
    ELSE /\ Len(messages') = Len(messages) + 2
         /\ SubSeq(messages', 1, Len(messages)) = messages
         /\ messages'[Len(messages) + 1].role = "user"
         /\ messages'[Len(messages) + 1].content = input
         /\ messages'[Len(messages) + 2].role = "assistant"
         /\ messages'[Len(messages) + 2].content = ""
         /\ isGenerating' /\ inFlight' = inFlight + 1

C26_OneRequestAnswered ==
  /\ [](inFlight <= 1 /\ (isGenerating <=> inFlight = 1))
  /\ [][submits' = submits + 1 => SubmissionEffect]_vars
  /\ [][Len(messages') # Len(messages) => submits' = submits + 1]_vars
  /\ (isGenerating ~> (~isGenerating /\ PlaceholderAnswered))

\* one submission was accepted, one was turned down, and the reply was
\* streamed in two messages
C26_Witness ==
  /\ ~isGenerating /\ submits = 2 /\ Len(messages) = 3
  /\ linesRead = 2
  /\ messages[2].role = "user" /\ messages[2].content = "hi"
  /\ messages[3].content = "Hello there"

(***************************************************************************)
(* C27: in the chatbot, when the SSE stream of a /chat request delivers a  *)
(* data event that carries an error field, sendMessageSSE rejects with     *)
(* that error, so handleSend takes its error path and the assistant        *)
(* message ends up showing 'Sorry, I encountered an error: <error> ...'    *)
(* instead of a normal reply or the no-response text.                      *)
(***************************************************************************)
C27_StreamErrorShown ==
  (chatPc = "idle" /\ sawError # "") =>
    messages[Len(messages)].content = ErrorText(sawError)

(***************************************************************************)
(* C28: fetchIssues and fetchPullRequests never throw: if the request for  *)
(* any page fails (not found or exhausted retries) at any point of the     *)
(* walk, the function returns the empty list, discarding the records of    *)
(* all pages already fetched, so its result is always either the complete  *)
(* record list or empty and never a partial prefix.                        *)
(***************************************************************************)
C28_AllOrNothing ==
  afn \in {"fetchIssues", "fetchPullRequests"} =>
    /\ apc # "rejected" /\ aerr = ""
    /\ apc = "returned" =>
         /\ aret \in {PagesUpTo(LastPageNo), <<>>}
         /\ acaught => aret = <<>>
         /\ ~acaught => aret = PagesUpTo(LastPageNo)

\* the catch block ran at page 2, after a full first page had been fetched
C28_Witness ==
  /\ afn = "fetchIssues" /\ apc = "returned" /\ acaught
  /\ acalls = <<1, 2>> /\ Len(aacc) = perPage
  /\ aret = <<>>

(***************************************************************************)
(* C29: calculateActivityScore is monotone in each week: raising the       *)
(* commit count of any single week among the last 12 entries, all other    *)
(* weeks unchanged, never lowers the returned score, a zero-commit week    *)
(* that becomes a week with commits included.                              *)
(***************************************************************************)
\* the positions .slice(-weeksToConsider) keeps
RecentWeeks(acts) == {i \in 1..Len(acts) : i > Len(acts) - weeksToConsider}

\* acts with the commit count of week i replaced by v
RaiseWeek(acts, i, v) == [acts EXCEPT ![i].total = v]

\* the sampled commit counts above t
HigherTotals(t) == {v \in WeekTotals : v > t}

\* raising any week of weeks never lowers the score returned for acts
NeverLowers(acts, weeks, score) ==
  \A i \in weeks : \A v \in HigherTotals(acts[i].total) :
    calculateActivityScore(RaiseWeek(acts, i, v)) >= score

C29_MonotoneInEachWeek ==
  CalcDone("calculateActivityScore") =>
    NeverLowers(cargs.activities, RecentWeeks(cargs.activities), cres)

(***************************************************************************)
(* C29 as it holds of the code: raising the commit count of a single week  *)
(* among the last 12 entries that already has commits, all other weeks     *)
(* unchanged, never lowers the returned score.  (Zero-commit weeks are     *)
(* left out of the average, so a zero-commit week that becomes a week with *)
(* commits joins the average and can lower the score.)                     *)
(***************************************************************************)
C29_MonotoneInCountedWeeks ==
  CalcDone("calculateActivityScore") =>
    NeverLowers(cargs.activities, CountedWeeks(cargs.activities), cres)

\* more than 12 weeks, the recent ones holding both zero-commit weeks and
\* weeks with commits; raising a counted week raises the score, and
\* raising a zero-commit week lowers it
C29_Witness ==
  /\ CalcDone("calculateActivityScore")
  /\ LET acts == cargs.activities
     IN /\ Len(acts) > weeksToConsider
        /\ \E i \in CountedWeeks(acts) : \E v \in HigherTotals(acts[i].total) :
             calculateActivityScore(RaiseWeek(acts, i, v)) > cres
        /\ \E i \in RecentWeeks(acts) \ CountedWeeks(acts) :
             \E v \in HigherTotals(0) :
               calculateActivityScore(RaiseWeek(acts, i, v)) < cres

(***************************************************************************)
(* C30: for every set of fetched commits, the empty set included,          *)
(* analyzeUserStress returns well-defined numbers: messageStress,          *)
(* fileSpike and nightAggressive are percentages in [0, 100] equal to the  *)
(* share of commits tripping that indicator (0 when there are no commits), *)
(* averageStressScore is in [0, 1] and stressTrend is finite.              *)
(***************************************************************************)
\* the share, in percent, of the commits at the positions tripping
ShareOf(commits, tripping) ==
  IF Len(commits) = 0 THEN RatInt(0)
  ELSE Rat(100 * Cardinality(tripping), Len(commits))

\* doubles less than a hundred-thousandth of a percent below and above the
\* share
ShareLow(share) == DoubleOfRat(Rat(share.num * 100000, share.den * 100000 + 1))
ShareHigh(share) == DoubleOfRat(Rat(share.num * 100000 + 1, share.den * 100000))

\* x is a number in [0, 100] that equals the share up to the rounding of
\* the doubles
IsPercentage(x, share) ==
  /\ isFinite(x)
  /\ ~DoubleLt[DoubleOf[100], x]
  /\ ~DoubleLt[x, ShareLow(share)] /\ ~DoubleLt[ShareHigh(share), x]

C30_WellDefinedNumbers ==
  CalcDone("analyzeUserStress") =>
    LET commits == cargs.commits
        idx == 1..Len(commits)
        sum == SumFilesCount(commits)
        byType == cres.stressByType
    IN /\ IsPercentage(byType.messageStress,
            ShareOf(commits, {i \in idx : hasMessageStress(commits[i].message)}))
       /\ IsPercentage(byType.fileSpike,
            ShareOf(commits, {i \in idx :
              commits[i].filesCount * Len(commits) > 2 * sum}))
       /\ IsPercentage(byType.nightAggressive,
            ShareOf(commits, {i \in idx :
              /\ commits[i].hour >= 22 \/ commits[i].hour < 5
              /\ commits[i].filesCount * Len(commits) > sum}))
       /\ isFinite(cres.averageStressScore)
       /\ ~DoubleLt[DoubleOf[1], cres.averageStressScore]
       /\ isFinite(cres.stressTrend.abs)

====
